---- MODULE Spec2Model ----
(***************************************************************************)
(* Vocabulary-enrichment pipeline of my-polyglot-app:                      *)
(*   - lib/rate-limiter.ts              fixed-window rate limiter          *)
(*   - lib/definition-ranker.ts         definition scoring and merging     *)
(*   - lib/cambridge-scraper.ts, oxford-scraper.ts   lexical sources       *)
(*   - app/api/fetch-dictionary/route.ts        single-word endpoint       *)
(*   - app/api/fetch-dictionary-batch/route.ts  batch endpoint             *)
(*   - app/page.tsx handleBatchFetch    client-side batch orchestration    *)
(*                                                                         *)
(* Strings that the code only tests for truthiness are modelled as TLA+   *)
(* strings with "" standing for both undefined and the empty string.       *)
(* Definition texts are sequences of word tokens (the result of            *)
(* split(/\s+/) on a trimmed string); <<>> is the absent/empty text.       *)
(***************************************************************************)
EXTENDS Integers, Sequences, FiniteSets, TLC

\* ------------------------------------------------------------------------
\* Bounds of the model
\* ------------------------------------------------------------------------
\* Largest clock value (Date.now()) explored.
MaxTime == 5
\* Largest maxRequests of a RateLimitConfig explored.
MaxRequestsBound == 2
\* Largest windowMs of a RateLimitConfig explored.
MaxWindow == 2
\* Largest number of checkRateLimit calls explored within one window.
MaxCalls == 4
\* Largest number of entries handed to mergeDefinitionSources.
MaxSources == 2
\* Largest number of entries handed to mergeDefinitionSources when the
\* entries carry every list of up to two example texts.
MaxExampleSources == 2
\* Largest number of entries handed to mergeDefinitionSources when the
\* entries carry no examples.
MaxPlainSources == 3
\* Largest number of plain words in a definition text handed to
\* scoreDefinitionQuality.
MaxFiller == 10
\* The endpoints' RateLimitConfig, { maxRequests: 30, windowMs: 60000 } in
\* the source, scaled down so that a client can exhaust it.
ApiMaxRequests == 2
ApiWindowMs == 2
\* Chunk size of handleBatchFetch, 100 in the source, scaled down so that
\* a run of MaxWords words takes more than one chunk.
CHUNK_SIZE == 2
\* Largest number of incomplete words a batch run starts with.
MaxWords == 3
\* Largest number of single-word requests in flight at once.
MaxFlights == 3
\* Largest number of items in the array a backend returns for a chunk.
MaxItems == 2

VARIABLES
  \* --- lib/rate-limiter.ts
  now,            \* Date.now()
  rateLimitMap,   \* Map<string, RateLimitEntry>, as a function on its keys
  config,         \* the RateLimitConfig the callers pass
  lastCall,       \* history: the last checkRateLimit call and its result
  window,         \* history: per identifier, the window the calls fall in
  unswept,        \* history: the map the same calls leave when no sweep runs
  flights,        \* concurrent single-word POSTs: where each handler is waiting
  \* --- lib/definition-ranker.ts
  sources,        \* the DefinitionSource[] handed to mergeDefinitionSources
  given,          \* history: the array as it was when the call was made
  merged,         \* the call's result (NotMerged before the call)
  scored,         \* the definition strings handed to scoreDefinitionQuality
  scores,         \* what scoreDefinitionQuality returned for each (Unscored before)

  \* --- the endpoints
  env,            \* process.env: which backend is selected, which keys are set
  endpoint,       \* which endpoint the run exercises: "single", "batch", "none"
  spc,            \* single-word POST: where the handler in flight is waiting
  sreq,           \* single-word POST: the request and the handler's locals
  sresp,          \* single-word POST: the response to the last request, once sent
  \* --- app/api/fetch-dictionary-batch/route.ts, app/page.tsx
  store,          \* vocab_library: the state of each incomplete word's row
  bc,             \* handleBatchFetch: its position, locals and React state
  bsrv,           \* batch POST: the handler in flight and its locals
  bresp,          \* batch POST: the response to the last chunk, once sent
  recon           \* history: what the last reconciliation deleted and updated

rlVars == <<now, rateLimitMap, config, lastCall, window, unswept>>
mergeVars == <<sources, given, merged>>
scoreVars == <<scored, scores>>
flightVars == <<flights>>
envVars == <<env, endpoint>>
singleVars == <<spc, sreq, sresp>>

batchVars == <<store, bc, bsrv, bresp, recon>>

vars == <<rlVars, mergeVars, scoreVars, flightVars, envVars, singleVars, batchVars>>

\* ------------------------------------------------------------------------
\* lib/rate-limiter.ts
\* ------------------------------------------------------------------------
Identifiers == {"ip1", "ip2"}

NoCall == [id |-> "", at |-> 0, opened |-> FALSE, nth |-> 0,
           allowed |-> FALSE, limit |-> 0, remaining |-> 0, resetTime |-> 0]

NoWindow == [open |-> FALSE, resetTime |-> 0, calls |-> 0, prevCalls |-> 0]

\* if (!entry || now > entry.resetTime)
WindowExpired(map, id, t) ==
  \/ id \notin DOMAIN map
  \/ t > map[id].resetTime

LimitReachedOffByOne(entry, cfg) == entry.count > cfg.maxRequests

\* if (entry.count >= config.maxRequests)
LimitReached(entry, cfg) == entry.count >= cfg.maxRequests

\* A set that drops the write of an incremented entry.
MapSetLosingIncrement(map, id, value) ==
  IF id \in DOMAIN map /\ value.count > 1 THEN map
  ELSE [k \in (DOMAIN map) \cup {id} |-> IF k = id THEN value ELSE map[k]]

\* rateLimitMap.set(identifier, value)
MapSet(map, id, value) ==
  [k \in (DOMAIN map) \cup {id} |-> IF k = id THEN value ELSE map[k]]

\* A limiter whose rejected call restarts the identifier's window.
checkRateLimitRestarting(map, id, cfg, t) ==
  IF WindowExpired(map, id, t)
  THEN [result |-> [allowed |-> TRUE, limit |-> cfg.maxRequests,
                    remaining |-> cfg.maxRequests - 1,
                    resetTime |-> t + cfg.windowMs],
        map |-> MapSet(map, id, [count |-> 1, resetTime |-> t + cfg.windowMs])]
  ELSE IF LimitReached(map[id], cfg)
  THEN [result |-> [allowed |-> FALSE, limit |-> cfg.maxRequests,
                    remaining |-> 0, resetTime |-> map[id].resetTime],
        map |-> MapSet(map, id, [count |-> map[id].count,
                                 resetTime |-> t + cfg.windowMs])]
  ELSE [result |-> [allowed |-> TRUE, limit |-> cfg.maxRequests,
                    remaining |-> cfg.maxRequests - (map[id].count + 1),
                    resetTime |-> map[id].resetTime],
        map |-> MapSet(map, id, [count |-> map[id].count + 1,
                                 resetTime |-> map[id].resetTime])]

\* checkRateLimit(identifier, config) at clock value t on map:
\* the returned object and the map it leaves behind.
checkRateLimit(map, id, cfg, t) ==
  IF WindowExpired(map, id, t)
  THEN [result |-> [allowed |-> TRUE, limit |-> cfg.maxRequests,
                    remaining |-> cfg.maxRequests - 1,
                    resetTime |-> t + cfg.windowMs],
        map |-> MapSet(map, id, [count |-> 1, resetTime |-> t + cfg.windowMs])]
  ELSE IF LimitReached(map[id], cfg)
  THEN [result |-> [allowed |-> FALSE, limit |-> cfg.maxRequests,
                    remaining |-> 0, resetTime |-> map[id].resetTime],
        map |-> map]
  ELSE [result |-> [allowed |-> TRUE, limit |-> cfg.maxRequests,
                    remaining |-> cfg.maxRequests - (map[id].count + 1),
                    resetTime |-> map[id].resetTime],
        map |-> MapSet(map, id, [count |-> map[id].count + 1,
                                 resetTime |-> map[id].resetTime])]

\* A sweep that deletes every entry, expired or not.
CleanupEverything(map, t) == <<>>

\* The setInterval callback: delete every entry with now > resetTime.
Cleanup(map, t) ==
  [k \in {j \in DOMAIN map : ~(t > map[j].resetTime)} |-> map[k]]

\* History of the windows as the callers see them: a call opens a window
\* when none is open for the identifier or the open one has elapsed
\* (its resetTime lies before the call); otherwise it is one more call of
\* the open window.
WindowAfterCall(w, cfg, t) ==
  IF ~w.open \/ t > w.resetTime
  THEN [open |-> TRUE, resetTime |-> t + cfg.windowMs, calls |-> 1,
        prevCalls |-> w.calls]
  ELSE [w EXCEPT !.calls = w.calls + 1]

RecordCall(id, r, t) ==
  LET w == WindowAfterCall(window[id], config, t) IN
  /\ window' = [window EXCEPT ![id] = w]
  /\ lastCall' = [id |-> id, at |-> t, opened |-> (w.calls = 1), nth |-> w.calls,
                  allowed |-> r.allowed, limit |-> r.limit,
                  remaining |-> r.remaining, resetTime |-> r.resetTime]
  /\ unswept' = checkRateLimit(unswept, id, config, t).map

RLIdle ==
  /\ now = 0
  /\ rateLimitMap = <<>>
  /\ config = [maxRequests |-> 0, windowMs |-> 0]
  /\ lastCall = NoCall
  /\ window = [id \in Identifiers |-> NoWindow]
  /\ unswept = <<>>

RLStart ==
  /\ now = 0
  /\ rateLimitMap = <<>>
  /\ config \in [maxRequests : 0..MaxRequestsBound, windowMs : 1..MaxWindow]
  /\ lastCall = NoCall
  /\ window = [id \in Identifiers |-> NoWindow]
  /\ unswept = <<>>

\* No single-word request is in flight.
FlightsIdle == flights = [reqs |-> <<>>, admitted |-> 0]

\* Time passes.
Tick ==
  /\ now < MaxTime
  /\ now' = now + 1
  /\ UNCHANGED <<rateLimitMap, config, lastCall, window, unswept>>

\* The periodic sweep runs.
Sweep ==
  /\ rateLimitMap' = Cleanup(rateLimitMap, now)
  /\ UNCHANGED <<now, config, lastCall, window, unswept>>

\* Some caller calls checkRateLimit(id, config).
CallCheckRateLimit(id) ==
  /\ WindowAfterCall(window[id], config, now).calls <= MaxCalls
  /\ \E c \in {checkRateLimit(rateLimitMap, id, config, now)} :
       /\ rateLimitMap' = c.map
       /\ RecordCall(id, c.result, now)
  /\ UNCHANGED <<now, config>>

\* Several POST handlers of the single-word endpoint run in one process.
\* A handler runs without interruption from its start to its first await
\* (route.ts 9-28: getClientIdentifier, checkRateLimit, the 429 answer or
\* the call of request.json()); it is resumed, again without interruption,
\* when the awaited body, scrapers and backend have answered.
Requests == 1..MaxFlights

\* The awaits of an admitted handler, in order, and its end.
AfterAwait(pc) ==
  CASE pc = "body" -> "scraping"
    [] pc = "scraping" -> "structuring"
    [] OTHER -> "answered"

\* Lines 9-28 for request r of client id: the check and, when it is
\* refused, the 429 answer.  admitted counts the calls allowed in the
\* window that is open for the callers.
Arrive(r, id) ==
  /\ flights.reqs[r] = "new"
  /\ \E c \in {checkRateLimit(rateLimitMap, id, config, now)} :
       /\ rateLimitMap' = c.map
       /\ RecordCall(id, c.result, now)
       /\ flights' =
            [reqs |-> [flights.reqs EXCEPT ![r] = IF c.result.allowed THEN "body"
                                                  ELSE "rejected"],
             admitted |-> (IF WindowAfterCall(window[id], config, now).calls = 1
                           THEN 0 ELSE flights.admitted)
                          + (IF c.result.allowed THEN 1 ELSE 0)]
  /\ UNCHANGED <<now, config>>

\* One of the awaits of request r is over and the handler runs on to the
\* next (lines 28, 37-40, 176-190) or to its response.
Resume(r) ==
  /\ flights.reqs[r] \in {"body", "scraping", "structuring"}
  /\ flights' = [flights EXCEPT !.reqs[r] = AfterAwait(@)]
  /\ UNCHANGED <<now, rateLimitMap, config, lastCall, window, unswept>>

\* ------------------------------------------------------------------------
\* lib/definition-ranker.ts
\* ------------------------------------------------------------------------
\* Lexical facts about the word tokens the model uses.  Every token not
\* listed is a plain lower-case word of \w characters.

\* Case folding, for the patterns carrying the i flag.
Lower(tok) ==
  CASE tok = "Past" -> "past"
    [] tok = "Plural" -> "plural"
    [] OTHER -> tok

\* tok consists of \w characters only.
IsWord(tok) == tok \notin {"(something)", "&", "simple:", "participle:",
                           "third-person", "vet.", "(of"}

\* tok matches \w+\.?
IsWordDot(tok) == IsWord(tok) \/ tok = "vet."

\* tok begins with a \w character.
StartsWithWordChar(tok) == tok \notin {"(something)", "&", "(of"}

\* tok ends in the letters "to" (case-sensitive).
EndsWithTo(tok) == tok \in {"to", "into", "onto"}

\* tok contains "that", "which" or "who" (case-sensitive).
ContainsRelative(tok) == tok \in {"that", "which", "who", "whole", "whose"}

\* tok contains one of examination|investigation|analysis|process|method|action.
ContainsTerminology(tok) ==
  tok \in {"examination", "investigation", "analysis", "process", "method",
           "action", "reaction", "processes"}

\* The first n tokens of the text, case-folded.
LowerPrefix(def, n) == [i \in 1..n |-> Lower(def[i])]

\* The text starts with the tokens of pat, each followed by white space:
\* a prefix pattern ^t1\s+t2\s+...tn\s+ on a trimmed text.
StartsWith(def, pat) ==
  /\ Len(def) > Len(pat)
  /\ LowerPrefix(def, Len(pat)) = pat

\* The text starts with the tokens of pat, the last of which may continue:
\* ^t1\s+...tn with no white space required after tn.
StartsWithOpen(def, pat, lastTokens) ==
  /\ Len(def) >= Len(pat) + 1
  /\ LowerPrefix(def, Len(pat)) = pat
  /\ def[Len(pat) + 1] \in lastTokens

\* The alternatives of the group
\* (past\s+(simple|tense|participle)|present\s+participle|third\s+person
\*  |plural|comparative|superlative) of FORM_CHANGE_PATTERNS[0].
FormNames ==
  { <<"past", "simple">>, <<"past", "tense">>, <<"past", "participle">>,
    <<"present", "participle">>, <<"third", "person">>, <<"plural">>,
    <<"comparative">>, <<"superlative">> }

\* The token prefixes FORM_CHANGE_PATTERNS[0] accepts: an optional "the",
\* a form name, then "of" or "form of".
FormOfPrefixes ==
  { pre \o f \o link :
    pre \in {<<>>, <<"the">>}, f \in FormNames, link \in {<<"of">>, <<"form", "of">>} }

\* FORM_CHANGE_PATTERNS[0]: one of the prefixes, followed by white space
\* (so by at least one more token of the trimmed text).
MatchesFormOf(def) ==
  \E n \in 2..5 : n < Len(def) /\ LowerPrefix(def, n) \in FormOfPrefixes

\* FORM_CHANGE_PATTERNS.some(pattern => pattern.test(trimmedDef))
MatchesFormChangePattern(def) ==
  \/ MatchesFormOf(def)
  \/ StartsWithOpen(def, <<"past">>, {"simple:"})
  \/ StartsWithOpen(def, <<"past">>, {"participle:"})
  \/ StartsWithOpen(def, <<"present">>, {"participle:"})
  \/ StartsWith(def, <<"gerund", "of">>)
  \/ StartsWith(def, <<"third-person", "singular", "simple", "present", "of">>)
  \/ \E t \in {<<>>, <<"tense">>} : \E a \in {"and", "&"} :
       StartsWith(def, <<"simple", "past">> \o t \o <<a, "past", "participle", "of">>)
  \/ StartsWith(def, <<"plural", "of">>)
  \/ StartsWith(def, <<"comparative", "form", "of">>)
  \/ StartsWith(def, <<"superlative", "form", "of">>)
  \/ /\ Len(def) = 4
     /\ IsWord(def[1])
     /\ Lower(def[2]) = "form"
     /\ Lower(def[3]) = "of"
     /\ IsWordDot(def[4])

\* isFormChangeDefinition(definition)
isFormChangeDefinition(def) ==
  IF def = <<>> THEN FALSE ELSE MatchesFormChangePattern(def)

\* /to\s+\w+/.test(definition)
HasInfinitive(def) ==
  \E i \in 1..(Len(def) - 1) : EndsWithTo(def[i]) /\ StartsWithWordChar(def[i + 1])

\* /that|which|who/.test(definition)
HasRelative(def) == \E i \in 1..Len(def) : ContainsRelative(def[i])

\* /examination|investigation|analysis|process|method|action/.test(definition)
HasTerminology(def) == \E i \in 1..Len(def) : ContainsTerminology(def[i])

Max(a, b) == IF a >= b THEN a ELSE b
Min(a, b) == IF a <= b THEN a ELSE b

\* A scoring whose form-change penalty is 10 instead of 40.
scoreWithSmallPenalty(def) ==
  IF def = <<>> THEN 0
  ELSE LET wordCount == Len(def)
           score == 50
                    - (IF isFormChangeDefinition(def) THEN 10 ELSE 0)
                    + (IF wordCount >= 5 THEN 15 ELSE 0)
                    + (IF wordCount >= 10 THEN 10 ELSE 0)
                    + (IF wordCount >= 15 THEN 5 ELSE 0)
                    + (IF HasInfinitive(def) THEN 5 ELSE 0)
                    + (IF HasRelative(def) THEN 5 ELSE 0)
                    - (IF wordCount < 3 THEN 15 ELSE 0)
                    + (IF HasTerminology(def) THEN 10 ELSE 0)
       IN Max(0, Min(100, score))

\* scoreDefinitionQuality(definition)
scoreDefinitionQuality(def) ==
  IF def = <<>> THEN 0
  ELSE LET wordCount == Len(def)
           score == 50
                    - (IF isFormChangeDefinition(def) THEN 40 ELSE 0)
                    + (IF wordCount >= 5 THEN 15 ELSE 0)
                    + (IF wordCount >= 10 THEN 10 ELSE 0)
                    + (IF wordCount >= 15 THEN 5 ELSE 0)
                    + (IF HasInfinitive(def) THEN 5 ELSE 0)
                    + (IF HasRelative(def) THEN 5 ELSE 0)
                    - (IF wordCount < 3 THEN 15 ELSE 0)
                    + (IF HasTerminology(def) THEN 10 ELSE 0)
       IN Max(0, Min(100, score))

\* A filter that keeps every entry.
HasDefinitionAlways(s) == TRUE

\* s.definition && s.definition.trim().length > 0; a text of white space
\* alone has no tokens.
HasDefinition(s) == s.definition # <<>>

\* sources.filter(s => s.definition && ...), as the indices kept, in order.
RECURSIVE ValidIndices(_, _)
ValidIndices(srcs, i) ==
  IF i > Len(srcs) THEN <<>>
  ELSE (IF HasDefinition(srcs[i]) THEN <<i>> ELSE <<>>) \o ValidIndices(srcs, i + 1)

\* The compare function (a, b) => b.score - a.score says a goes after b.
SortsAfterReversed(a, b) == a.score - b.score > 0
SortsAfter(a, b) == b.score - a.score > 0

\* Array.prototype.sort is stable: an element is placed behind every
\* element that does not have to follow it.
RECURSIVE InsertSorted(_, _)
InsertSorted(sorted, x) ==
  IF sorted = <<>> THEN <<x>>
  ELSE IF SortsAfter(Head(sorted), x)
       THEN <<x>> \o sorted
       ELSE <<Head(sorted)>> \o InsertSorted(Tail(sorted), x)

RECURSIVE SortScored(_)
SortScored(seq) ==
  IF seq = <<>> THEN <<>>
  ELSE InsertSorted(SortScored(SubSeq(seq, 1, Len(seq) - 1)), seq[Len(seq)])

\* selectBestDefinition(sources): the index in sources of the object it
\* returns, 0 for null.
selectBestDefinition(srcs) ==
  LET valid == ValidIndices(srcs, 1)
      scoredSources == [k \in 1..Len(valid) |->
                          [source |-> valid[k],
                           score |-> scoreDefinitionQuality(srcs[valid[k]].definition)]]
  IN IF srcs = <<>> \/ valid = <<>> THEN 0
     ELSE SortScored(scoredSources)[1].source

\* merged.examples.includes(example)
Includes(seq, x) == \E i \in 1..Len(seq) : seq[i] = x

\* The cap of the examples collected into the result.
ExampleCap == 3

\* for (const example of source.examples)
\*   if (!merged.examples.includes(example) && merged.examples.length < 3) push
RECURSIVE PushExamples(_, _, _)
PushExamples(acc, exs, j) ==
  IF j > Len(exs) THEN acc
  ELSE PushExamples(IF ~Includes(acc, exs[j]) /\ Len(acc) < ExampleCap
                    THEN Append(acc, exs[j]) ELSE acc,
                    exs, j + 1)

\* One pass of the loop `for (const source of sources)` on merged m.
\* aliased: merged.examples is the very array of the best entry (the
\* spread copy `{ ...bestDef }` is shallow), so that entry's examples are
\* read as they are now, not as they were given.
MergeFrom(m, s, isBest, aliased) ==
  LET live == IF isBest /\ aliased THEN m.examples ELSE s.examples
      m1 == IF m.cefrLevel = "" /\ s.cefrLevel # ""
            THEN [m EXCEPT !.cefrLevel = s.cefrLevel] ELSE m
      m2 == IF m1.pronunciation = "" /\ s.pronunciation # ""
            THEN [m1 EXCEPT !.pronunciation = s.pronunciation] ELSE m1
      m3 == IF ~m2.hasExamples
            THEN [m2 EXCEPT !.hasExamples = TRUE, !.examples = <<>>] ELSE m2
  IN IF s.hasExamples /\ Len(live) > 0
     THEN [m3 EXCEPT !.examples = PushExamples(m3.examples, live, 1)]
     ELSE m2

RECURSIVE MergeLoop(_, _, _, _, _)
MergeLoop(m, srcs, i, best, aliased) ==
  IF i > Len(srcs) THEN m
  ELSE MergeLoop(MergeFrom(m, srcs[i], i = best, aliased), srcs, i + 1, best, aliased)

\* The names of all entries, whether they carry a definition or not.
SourceNamesOfAll(srcs, i) == [k \in 1..Len(srcs) |-> srcs[k].source]

\* sources.filter(s => s.definition && ...).map(s => s.source)
RECURSIVE SourceNamesFrom(_, _)
SourceNamesFrom(srcs, i) ==
  IF i > Len(srcs) THEN <<>>
  ELSE (IF HasDefinition(srcs[i]) THEN <<srcs[i].source>> ELSE <<>>)
       \o SourceNamesFrom(srcs, i + 1)

\* sourceNames.filter(s => s !== bestDef.source)
RECURSIVE Without(_, _)
Without(names, x) ==
  IF names = <<>> THEN <<>>
  ELSE (IF Head(names) # x THEN <<Head(names)>> ELSE <<>>) \o Without(Tail(names), x)

\* The string `${base} (+ ${others.join(', ')})`, kept as its parts;
\* plus = FALSE is the bare name.
SourceLabel(base, plus, others) == [base |-> base, plus |-> plus, others |-> others]

NoneResult ==
  [called |-> TRUE, source |-> SourceLabel("None", FALSE, <<>>), definition |-> <<>>,
   partOfSpeech |-> "", examples |-> <<>>, hasExamples |-> FALSE,
   cefrLevel |-> "", pronunciation |-> ""]

\* mergeDefinitionSources(sources): the object returned, and the input
\* array as the call leaves it.
mergeDefinitionSources(srcs) ==
  LET best == selectBestDefinition(srcs) IN
  IF best = 0 THEN [merged |-> NoneResult, sources |-> srcs]
  ELSE
    LET bestDef == srcs[best]
        aliased == bestDef.hasExamples
        start == [called |-> TRUE, source |-> SourceLabel(bestDef.source, FALSE, <<>>),
                  definition |-> bestDef.definition,
                  partOfSpeech |-> bestDef.partOfSpeech,
                  examples |-> bestDef.examples, hasExamples |-> bestDef.hasExamples,
                  cefrLevel |-> bestDef.cefrLevel,
                  pronunciation |-> bestDef.pronunciation]
        looped == MergeLoop(start, srcs, 1, best, aliased)
        sourceNames == SourceNamesFrom(srcs, 1)
        result == IF Len(sourceNames) > 1
                  THEN [looped EXCEPT !.source =
                          SourceLabel(bestDef.source, TRUE,
                                      Without(sourceNames, bestDef.source))]
                  ELSE looped
    IN [merged |-> result,
        sources |-> IF aliased
                    THEN [srcs EXCEPT ![best].examples = looped.examples]
                    ELSE srcs]

\* The definition texts the entries are drawn from.
FormChangeText == <<"past", "simple", "of", "vet">>
DescriptiveText ==
  <<"make", "a", "careful", "and", "critical", "examination", "of", "(something)">>
OtherDescriptiveText ==
  <<"check", "a", "person", "or", "thing", "by", "careful", "analysis">>
ShortText == <<"examine", "closely">>

DefinitionTexts == {<<>>, FormChangeText, DescriptiveText, OtherDescriptiveText}

ExampleLists == {<<"e1", "e2">>, <<"e2", "e3">>, <<"e3", "e4">>}

\* Sources are registered in this order; entry i comes from source i.
SourceNameAt(i) ==
  CASE i = 1 -> "Cambridge Dictionary"
    [] i = 2 -> "Oxford Dictionary"
    [] i = 3 -> "Google Translate/Dictionary API"
    [] OTHER -> "Source 4"

\* Level and pronunciation as a source may report them: neither, both,
\* or the level alone.
Attributes ==
  { [cefrLevel |-> "", pronunciation |-> ""],
    [cefrLevel |-> "B2", pronunciation |-> "vet"],
    [cefrLevel |-> "C1", pronunciation |-> ""] }

\* What one source can report for the word.
EntryBodies ==
  { [definition |-> d, partOfSpeech |-> "verb",
     examples |-> e, hasExamples |-> (e # <<>>),
     cefrLevel |-> a.cefrLevel, pronunciation |-> a.pronunciation] :
    d \in DefinitionTexts, e \in ExampleLists \cup {<<>>}, a \in Attributes }

EntryOf(i, b) ==
  [source |-> SourceNameAt(i), definition |-> b.definition,
   partOfSpeech |-> b.partOfSpeech, examples |-> b.examples,
   hasExamples |-> b.hasExamples, cefrLevel |-> b.cefrLevel,
   pronunciation |-> b.pronunciation]

NotMerged == [called |-> FALSE]

MergeIdle ==
  /\ sources = <<>>
  /\ given = <<>>
  /\ merged = NotMerged

MergeInit ==
  /\ \E n \in 0..MaxSources : \E b \in [1..n -> EntryBodies] :
       sources = [i \in 1..n |-> EntryOf(i, b[i])]
  /\ given = sources
  /\ merged = NotMerged

\* Entries without examples, so that longer lists can be explored.
PlainBodies == {b \in EntryBodies : ~b.hasExamples}

PlainInit ==
  /\ \E n \in 0..MaxPlainSources : \E b \in [1..n -> PlainBodies] :
       sources = [i \in 1..n |-> EntryOf(i, b[i])]
  /\ given = sources
  /\ merged = NotMerged

\* Example texts a dictionary page can show; a page may show one text
\* twice, and the scrapers keep the first two non-empty texts as they come.
ExampleTexts == {"e1", "e2", "e3", "e4"}

ScrapedExamples ==
  {<<>>} \cup {<<x>> : x \in ExampleTexts}
         \cup {<<x, y>> : x \in ExampleTexts, y \in ExampleTexts}

\* Entries with every examples value: absent, empty, one or two texts.
ExampleBodies ==
  { b \in [definition : {<<>>, FormChangeText, DescriptiveText},
           partOfSpeech : {"verb"},
           examples : ScrapedExamples, hasExamples : BOOLEAN,
           cefrLevel : {""}, pronunciation : {""}] :
      b.hasExamples \/ b.examples = <<>> }

ExamplesInit ==
  /\ \E n \in 0..MaxExampleSources : \E b \in [1..n -> ExampleBodies] :
       sources = [i \in 1..n |-> EntryOf(i, b[i])]
  /\ given = sources
  /\ merged = NotMerged

\* The caller merges the entries it collected.
Merge ==
  /\ ~merged.called
  /\ \E r \in {mergeDefinitionSources(sources)} :
       /\ merged' = r.merged
       /\ sources' = r.sources
  /\ UNCHANGED given

\* The definition strings scoreDefinitionQuality is applied to: an opening
\* phrase (none, a form-change prefix, or the "<word> form of" of the last
\* pattern), one to MaxFiller plain words, and any of the phrases that
\* earn a bonus.
StartPhrases == {<<>>, <<"past", "simple", "of">>, <<"inflected", "form", "of">>}

Filler(n) == [i \in 1..n |-> IF i = 1 THEN "vet" ELSE "thing"]

BonusPhrases ==
  { (IF inf THEN <<"to", "go">> ELSE <<>>) \o (IF rel THEN <<"which">> ELSE <<>>)
      \o (IF term THEN <<"action">> ELSE <<>>) :
    inf \in BOOLEAN, rel \in BOOLEAN, term \in BOOLEAN }

ScoreTexts ==
  { start \o Filler(n) \o bonus :
    start \in StartPhrases, n \in 1..MaxFiller, bonus \in BonusPhrases }

\* Two strings are scored, as selectBestDefinition scores the entries it
\* compares.
Slots == {"first", "second"}

Unscored == -1

ScoreIdle ==
  /\ scored = [k \in Slots |-> <<>>]
  /\ scores = [k \in Slots |-> Unscored]

ScoreInit ==
  /\ scored \in [Slots -> ScoreTexts]
  /\ scores = [k \in Slots |-> Unscored]

\* score: scoreDefinitionQuality(source.definition)
Score(k) ==
  /\ scores[k] = Unscored
  /\ scores' = [scores EXCEPT ![k] = scoreDefinitionQuality(scored[k])]
  /\ UNCHANGED scored

\* ------------------------------------------------------------------------
\* lib/cambridge-scraper.ts, lib/oxford-scraper.ts
\* ------------------------------------------------------------------------
\* What a dictionary site serves for a word: the fetch rejects, answers
\* with a non-success status, answers with a body that makes
\* response.text() or cheerio.load throw, or answers with a page that may
\* hold the entry anchor and, below it, the elements the scraper reads.
NoFields == [pos |-> "", cefr |-> "", def |-> <<>>, examples |-> <<>>, ipa |-> ""]

PageOf(outcome, entry, f) ==
  [outcome |-> outcome, entry |-> entry, pos |-> f.pos, cefr |-> f.cefr,
   def |-> f.def, examples |-> f.examples, ipa |-> f.ipa]

\* examples.push for the first two elements whose text is not empty.
FirstTwoNonEmpty(texts) ==
  LET firstTwo == SubSeq(texts, 1, Min(2, Len(texts)))
  IN SelectSeq(firstTwo, LAMBDA t : t # "")

NotFoundData(word) ==
  [word |-> word, found |-> FALSE, partOfSpeech |-> "", cefrLevel |-> "",
   definition |-> <<>>, examples |-> <<>>, pronunciation |-> ""]

\* The body shared by scrapeCambridgeDictionary and scrapeOxfordDictionary:
\* a rejected fetch, a non-success status, an exception caught before the
\* anchor is read and a page without the entry anchor all leave
\* { word, found: false }; the function never rejects.
ScrapePage(word, page) ==
  IF page.outcome # "ok" \/ ~page.entry
  THEN NotFoundData(word)
  ELSE [word |-> word, found |-> TRUE, partOfSpeech |-> page.pos,
        cefrLevel |-> page.cefr, definition |-> page.def,
        examples |-> FirstTwoNonEmpty(page.examples), pronunciation |-> page.ipa]

scrapeCambridgeDictionary(word, page) == ScrapePage(word, page)

scrapeOxfordDictionary(word, page) == ScrapePage(word, page)

\* One labelled line of the text handed to the backend.
Line(label, tokens) == [label |-> label, text |-> tokens]

ExampleLines(examples) == [i \in 1..Len(examples) |-> Line("Example", <<examples[i]>>)]

\* formatCambridgeData(data)
formatCambridgeData(data) ==
  IF ~data.found THEN <<Line("No entry found", <<data.word>>)>>
  ELSE <<Line("Word", <<data.word>>)>>
       \o (IF data.pronunciation # "" THEN <<Line("Pronunciation", <<data.pronunciation>>)>> ELSE <<>>)
       \o (IF data.partOfSpeech # "" THEN <<Line("Part of Speech", <<data.partOfSpeech>>)>> ELSE <<>>)
       \o (IF data.cefrLevel # "" THEN <<Line("CEFR Level", <<data.cefrLevel>>)>> ELSE <<>>)
       \o (IF data.definition # <<>> THEN <<Line("Definition", data.definition)>> ELSE <<>>)
       \o ExampleLines(data.examples)

\* formatOxfordData(data)
formatOxfordData(data) ==
  <<Line("Word", <<data.word>>)>>
  \o (IF data.partOfSpeech # "" THEN <<Line("Part of Speech", <<data.partOfSpeech>>)>> ELSE <<>>)
  \o (IF data.cefrLevel # "" THEN <<Line("CEFR Level", <<data.cefrLevel>>)>> ELSE <<>>)
  \o (IF data.pronunciation # "" THEN <<Line("Pronunciation", <<data.pronunciation>>)>> ELSE <<>>)
  \o (IF data.definition # <<>> THEN <<Line("Definition", data.definition)>> ELSE <<>>)
  \o ExampleLines(data.examples)

\* The pages explored: every way of not finding the word, and entries
\* with or without a definition that are either bare (no part of speech,
\* level, example or pronunciation) or full.
BareFields(d) == [pos |-> "", cefr |-> "", def |-> d, examples |-> <<>>, ipa |-> ""]

FullFields(d) ==
  [pos |-> "verb", cefr |-> "B2", def |-> d,
   examples |-> <<"e1", "", "e2", "e3">>, ipa |-> "vet"]

EntryFields ==
  { BareFields(d) : d \in {<<>>, FormChangeText, DescriptiveText} }
  \cup { FullFields(d) : d \in {<<>>, FormChangeText, DescriptiveText} }

Pages ==
  { PageOf("reject", FALSE, NoFields), PageOf("status", FALSE, NoFields),
    PageOf("throws", FALSE, NoFields), PageOf("ok", FALSE, NoFields) }
  \cup { PageOf("ok", TRUE, f) : f \in EntryFields }

\* ------------------------------------------------------------------------
\* The structuring backend, as both route handlers use it
\* ------------------------------------------------------------------------
\* process.env: USE_HUGGINGFACE, USE_LM_STUDIO, and whether
\* HUGGINGFACE_API_KEY and OPENAI_API_KEY are set.
EnvOf(hf, lm, hfKey, openaiKey) ==
  [useHuggingFace |-> hf, useLMStudio |-> lm, hfKey |-> hfKey, openaiKey |-> openaiKey]

Envs ==
  { EnvOf(TRUE, FALSE, TRUE, FALSE), EnvOf(TRUE, TRUE, FALSE, TRUE),
    EnvOf(FALSE, TRUE, FALSE, FALSE),
    EnvOf(FALSE, FALSE, FALSE, TRUE), EnvOf(FALSE, FALSE, FALSE, FALSE) }

MissingApiKeyOpenAIOnly(e) == ~e.useHuggingFace /\ ~e.useLMStudio /\ ~e.openaiKey

\* The branch `if (!apiKey) return 500` of the selected backend.
MissingApiKey(e) ==
  IF e.useHuggingFace THEN ~e.hfKey
  ELSE IF e.useLMStudio THEN FALSE
  ELSE ~e.openaiKey

\* A JSON value, as far as the handlers look into it.
JsonNull == [type |-> "null", fields |-> <<>>, items |-> <<>>]
JsonNumber == [type |-> "number", fields |-> <<>>, items |-> <<>>]
JsonString == [type |-> "string", fields |-> <<>>, items |-> <<>>]
JsonArray(items) == [type |-> "array", fields |-> <<>>, items |-> items]

\* The text the backend generated: nothing, or a text that is JSON or
\* not, possibly wrapped in a ```json fence.
NoContent == [kind |-> "none", fenced |-> FALSE, value |-> JsonNull]
Garbage == [kind |-> "garbage", fenced |-> FALSE, value |-> JsonNull]
JsonText(v, fenced) == [kind |-> "json", fenced |-> fenced, value |-> v]

\* content.replace(/```json\n?|\n?```/g, '').trim()
CleanContent(c) == [c EXCEPT !.fenced = FALSE]

\* JSON.parse(text) succeeds: the text is JSON with nothing around it.
Parses(c) == c.kind = "json" /\ ~c.fenced

\* What fetch(apiUrl) brings back: a rejection, a non-success status, a
\* body that is not JSON, or a body in the chat-completions shape
\* ({choices: [{message: {content}}]}), the Hugging Face array shape
\* ([{generated_text}]) or the Hugging Face object shape ({generated_text}).
ReplyOf(kind, status, shape, content) ==
  [kind |-> kind, status |-> status, shape |-> shape, content |-> content]

NoReply == ReplyOf("none", 0, "none", NoContent)

\* content = Array.isArray(data) ? data[0]?.generated_text : data.generated_text
\* for Hugging Face, data.choices[0]?.message?.content otherwise;
\* "throws" when data.choices is undefined.
ExtractContent(e, reply) ==
  IF e.useHuggingFace
  THEN IF reply.shape \in {"hfArray", "hfObject"}
       THEN [thrown |-> FALSE, content |-> reply.content]
       ELSE [thrown |-> FALSE, content |-> NoContent]
  ELSE IF reply.shape = "chat"
       THEN [thrown |-> FALSE, content |-> reply.content]
       ELSE [thrown |-> TRUE, content |-> NoContent]

\* ------------------------------------------------------------------------
\* app/api/fetch-dictionary/route.ts
\* ------------------------------------------------------------------------
NoData ==
  [part_of_speech |-> "", cefr_level |-> "", meaning_primary |-> <<>>, usage_tips |-> ""]

\* NextResponse.json(body, {status})
ResponseOf(status, success, error, data, source) ==
  [status |-> status, success |-> success, error |-> error, data |-> data,
   source |-> source]

ErrorResponse(status, error) == ResponseOf(status, FALSE, error, NoData, "")

NoResponse == ResponseOf(0, FALSE, "", NoData, "")

\* a || b on strings, and on texts
OrStr(a, b) == IF a # "" THEN a ELSE b
OrText(a, b) == IF a # <<>> THEN a ELSE b

\* examples?.[0]
FirstExample(data) == IF data.examples = <<>> THEN "" ELSE data.examples[1]

\* A choice that looks at Cambridge alone.
ChooseCambridgeOnly(cambridgeData, oxfordData) ==
  IF cambridgeData.found
  THEN [found |-> TRUE, dictionaryData |-> cambridgeData,
        scrapedDataText |-> formatCambridgeData(cambridgeData),
        source |-> "Cambridge Dictionary"]
  ELSE [found |-> FALSE, dictionaryData |-> cambridgeData,
        scrapedDataText |-> <<>>, source |-> ""]

\* The choice of the dictionary data: Cambridge when it found the word
\* (with Oxford's level filled in when Cambridge has none), else Oxford.
\* found = FALSE: neither source has the word.
ChooseDictionaryData(cambridgeData, oxfordData) ==
  IF cambridgeData.found /\ oxfordData.found
  THEN IF cambridgeData.cefrLevel = "" /\ oxfordData.cefrLevel # ""
       THEN LET d == [cambridgeData EXCEPT !.cefrLevel = oxfordData.cefrLevel]
            IN [found |-> TRUE, dictionaryData |-> d,
                scrapedDataText |-> formatCambridgeData(cambridgeData)
                                    \o <<Line("CEFR level from Oxford", <<oxfordData.cefrLevel>>)>>,
                source |-> "Cambridge & Oxford Dictionaries"]
       ELSE [found |-> TRUE, dictionaryData |-> cambridgeData,
             scrapedDataText |-> formatCambridgeData(cambridgeData),
             source |-> "Cambridge Dictionary"]
  ELSE IF cambridgeData.found
  THEN [found |-> TRUE, dictionaryData |-> cambridgeData,
        scrapedDataText |-> formatCambridgeData(cambridgeData),
        source |-> "Cambridge Dictionary"]
  ELSE IF oxfordData.found
  THEN [found |-> TRUE, dictionaryData |-> oxfordData,
        scrapedDataText |-> formatOxfordData(oxfordData),
        source |-> "Oxford Dictionary"]
  ELSE [found |-> FALSE, dictionaryData |-> cambridgeData,
        scrapedDataText |-> <<>>, source |-> ""]

\* The catch branch of JSON.parse: the scraped data as it is.
ScrapedFallback(dictionaryData) ==
  [type |-> "object",
   fields |-> [part_of_speech |-> OrStr(dictionaryData.partOfSpeech, ""),
               cefr_level |-> OrStr(dictionaryData.cefrLevel, "n.a."),
               meaning_primary |-> OrText(dictionaryData.definition, <<>>),
               usage_tips |-> OrStr(FirstExample(dictionaryData), "")],
   items |-> <<>>]

\* processedData.<field>: undefined on a number, a string or an array.
Field(v) == IF v.type = "object" THEN v.fields ELSE NoData

\* if (!processedData.part_of_speech || !processedData.meaning_primary)
Incomplete(v) == Field(v).part_of_speech = "" \/ Field(v).meaning_primary = <<>>

\* The branch taken for an incomplete answer: scraped data first, the
\* backend's fields second.
FillFromScraped(dictionaryData, v) ==
  [type |-> "object",
   fields |-> [part_of_speech |-> OrStr(dictionaryData.partOfSpeech, Field(v).part_of_speech),
               cefr_level |-> OrStr(dictionaryData.cefrLevel,
                                    OrStr(Field(v).cefr_level, "n.a.")),
               meaning_primary |-> OrText(dictionaryData.definition, Field(v).meaning_primary),
               usage_tips |-> OrStr(FirstExample(dictionaryData), Field(v).usage_tips)],
   items |-> <<>>]

\* Lines 190-250: from the backend's 2xx answer to the response.
StructureSingle(e, dictionaryData, source, reply) ==
  LET x == ExtractContent(e, reply)
      content == x.content
      clean == CleanContent(content)
      parsed == IF Parses(clean) THEN clean.value ELSE ScrapedFallback(dictionaryData)
      processedData == IF Incomplete(parsed) THEN FillFromScraped(dictionaryData, parsed)
                       ELSE parsed
  IN IF x.thrown THEN ErrorResponse(500, "exception")
     ELSE IF content.kind = "none" THEN ErrorResponse(500, "No response from AI")
     ELSE IF Parses(clean) /\ parsed.type = "null" THEN ErrorResponse(500, "exception")
     ELSE ResponseOf(200, TRUE, "",
                     [part_of_speech |-> OrStr(processedData.fields.part_of_speech, ""),
                      cefr_level |-> OrStr(processedData.fields.cefr_level, "n.a."),
                      meaning_primary |-> OrText(processedData.fields.meaning_primary, <<>>),
                      usage_tips |-> OrStr(processedData.fields.usage_tips, "")],
                     source)

\* Lines 176-250: the answer of fetch(apiUrl) turned into the response.
AfterBackend(e, dictionaryData, source, reply) ==
  CASE reply.kind = "reject" -> ErrorResponse(500, "exception")
    [] reply.kind = "httpError" -> ErrorResponse(reply.status, "Failed to process dictionary data")
    [] reply.kind = "notJson" -> ErrorResponse(500, "exception")
    [] OTHER -> StructureSingle(e, dictionaryData, source, reply)

\* The structured answers a backend may give.
AiText == <<"to", "examine", "something", "carefully">>

JsonObject(pos, meaning) ==
  [type |-> "object",
   fields |-> [part_of_speech |-> pos, cefr_level |-> "", meaning_primary |-> meaning,
               usage_tips |-> ""],
   items |-> <<>>]

JsonValues ==
  { JsonNull, JsonNumber, JsonString, JsonArray(<<>>) }
  \cup { [type |-> "object", fields |-> NoData, items |-> <<>>] }
  \cup { JsonObject(ps, m) : ps \in {"", "noun"}, m \in {<<>>, AiText} }

Contents ==
  { NoContent, Garbage, JsonText(JsonObject("noun", AiText), TRUE) }
  \cup { JsonText(v, FALSE) : v \in JsonValues }

Replies ==
  { ReplyOf("reject", 0, "none", NoContent), ReplyOf("httpError", 401, "none", NoContent),
    ReplyOf("httpError", 404, "none", NoContent),
    ReplyOf("httpError", 503, "none", NoContent), ReplyOf("notJson", 200, "none", NoContent),
    ReplyOf("ok", 200, "hfObject", NoContent),
    ReplyOf("ok", 200, "hfObject", JsonText(JsonObject("noun", AiText), FALSE)) }
  \cup { ReplyOf("ok", 200, sh, c) : sh \in {"chat", "hfArray"}, c \in Contents }

\* The JSON bodies a client may post: not JSON at all, no word, a word.
SingleBodies == {[json |-> FALSE, word |-> ""], [json |-> TRUE, word |-> ""],
                 [json |-> TRUE, word |-> "vetted"]}

ApiClients == {"ip1"}

ApiRateLimit == [maxRequests |-> ApiMaxRequests, windowMs |-> ApiWindowMs]

NoRequest ==
  [word |-> "", cambridgeData |-> NotFoundData(""), oxfordData |-> NotFoundData(""),
   dictionaryData |-> NotFoundData(""), scrapedDataText |-> <<>>, source |-> "",
   failedSources |-> {}]

\* History: the response together with what the handler saw on the way.
Answered(response, req, reply) ==
  [response |-> response, word |-> req.word, cambridgeData |-> req.cambridgeData,
   oxfordData |-> req.oxfordData, dictionaryData |-> req.dictionaryData,
   scrapedDataText |-> req.scrapedDataText, reply |-> reply,
   failedSources |-> req.failedSources]

EnvIdle ==
  /\ env = EnvOf(FALSE, FALSE, FALSE, FALSE)
  /\ endpoint = "none"

SingleIdle ==
  /\ spc = "idle"
  /\ sreq = NoRequest
  /\ sresp = Answered(NoResponse, NoRequest, NoReply)

\* Lines 9-32: the rate limit, the body, the word.
SingleRequest(id, body) ==
  /\ endpoint = "single"
  /\ spc = "idle"
  /\ \E c \in {checkRateLimit(rateLimitMap, id, ApiRateLimit, now)} :
       /\ rateLimitMap' = c.map
       /\ LET req == [NoRequest EXCEPT !.word = body.word] IN
          IF ~c.result.allowed
          THEN /\ sresp' = Answered(ErrorResponse(429, "Rate limit exceeded"), NoRequest, NoReply)
               /\ UNCHANGED <<spc, sreq>>
          ELSE IF ~body.json
          THEN /\ sresp' = Answered(ErrorResponse(500, "exception"), NoRequest, NoReply)
               /\ UNCHANGED <<spc, sreq>>
          ELSE IF body.word = ""
          THEN /\ sresp' = Answered(ErrorResponse(400, "Word is required"), NoRequest, NoReply)
               /\ UNCHANGED <<spc, sreq>>
          ELSE /\ spc' = "scraping"
               /\ sreq' = req
               /\ sresp' = Answered(NoResponse, NoRequest, NoReply)
  /\ UNCHANGED <<now, config, lastCall, window, unswept, env, endpoint>>

\* Lines 37-109: both scrapers have answered; the dictionary data is
\* chosen and the backend selected.
SingleScraped(cPage, oPage) ==
  /\ spc = "scraping"
  /\ \E cambridgeData \in {scrapeCambridgeDictionary(sreq.word, cPage)},
        oxfordData \in {scrapeOxfordDictionary(sreq.word, oPage)} :
       \E chosen \in {ChooseDictionaryData(cambridgeData, oxfordData)} :
         LET req == [sreq EXCEPT !.cambridgeData = cambridgeData,
                                 !.oxfordData = oxfordData,
                                 !.dictionaryData = chosen.dictionaryData,
                                 !.scrapedDataText = chosen.scrapedDataText,
                                 !.source = chosen.source,
                                 !.failedSources =
                                   (IF cPage.outcome # "ok" THEN {"cambridge"} ELSE {})
                                   \cup (IF oPage.outcome # "ok" THEN {"oxford"} ELSE {})]
         IN
         IF ~chosen.found
         THEN /\ sresp' = Answered(ErrorResponse(404, "not found"), req, NoReply)
              /\ spc' = "idle"
              /\ sreq' = NoRequest
         ELSE IF MissingApiKey(env)
         THEN /\ sresp' = Answered(ErrorResponse(500, "API key not configured"), req, NoReply)
              /\ spc' = "idle"
              /\ sreq' = NoRequest
         ELSE /\ spc' = "structuring"
              /\ sreq' = req
              /\ UNCHANGED sresp
  /\ UNCHANGED <<rlVars, env, endpoint>>

\* Lines 176-257: the backend has answered.
SingleStructured(reply) ==
  /\ spc = "structuring"
  /\ sresp' = Answered(AfterBackend(env, sreq.dictionaryData, sreq.source, reply), sreq, reply)
  /\ spc' = "idle"
  /\ sreq' = NoRequest
  /\ UNCHANGED <<rlVars, env, endpoint>>

\* ------------------------------------------------------------------------
\* app/api/fetch-dictionary-batch/route.ts
\* ------------------------------------------------------------------------
\* toLowerCase() on the words the model uses.
LowerWord(w) == IF w = "Apple" THEN "apple" ELSE w

\* One entry of scrapedResults: { ...finalData, source } for a word some
\* source found, { word, found: false, error } otherwise.
ScrapedEntry(data, source, error) ==
  [word |-> data.word, found |-> data.found, partOfSpeech |-> data.partOfSpeech,
   cefrLevel |-> data.cefrLevel, definition |-> data.definition,
   examples |-> data.examples, pronunciation |-> data.pronunciation,
   source |-> source, error |-> error]

\* Lines 29-52: Cambridge when it found the word (with Oxford's level
\* filled in when Cambridge has none), else Oxford, else not found.
ChooseFinalData(word, cambridgeData, oxfordData) ==
  IF cambridgeData.found /\ oxfordData.found
  THEN ScrapedEntry(IF cambridgeData.cefrLevel = "" /\ oxfordData.cefrLevel # ""
                    THEN [cambridgeData EXCEPT !.cefrLevel = oxfordData.cefrLevel]
                    ELSE cambridgeData,
                    "Cambridge & Oxford", "")
  ELSE IF cambridgeData.found THEN ScrapedEntry(cambridgeData, "Cambridge", "")
  ELSE IF oxfordData.found THEN ScrapedEntry(oxfordData, "Oxford", "")
  ELSE ScrapedEntry(NotFoundData(word), "", "Not found")

\* scrapedResults.filter(r => r.found)
Found(r) == r.found
NotFound(r) == ~r.found
SuccessfulScrapes(scrapedResults) == SelectSeq(scrapedResults, Found)

\* scrapedResults.filter(r => !r.found).map(r => r.word)
WordsOf(rs) == [i \in 1..Len(rs) |-> rs[i].word]
FailedWords(scrapedResults) == WordsOf(SelectSeq(scrapedResults, NotFound))

\* One record of the response's data, and one item of the backend's array
\* (kind "null": the item is null).
RecordOf(kind, word, pos, cefr, meaning, usage) ==
  [kind |-> kind, word |-> word, part_of_speech |-> pos, cefr_level |-> cefr,
   meaning_primary |-> meaning, usage_tips |-> usage]

\* The scraped data as it is, for one word.
FallbackRecord(data) ==
  RecordOf("object", data.word, OrStr(data.partOfSpeech, ""),
           OrStr(data.cefrLevel, "n.a."), OrText(data.definition, <<>>),
           OrStr(FirstExample(data), ""))

FallbackResults(successfulScrapes) ==
  [i \in 1..Len(successfulScrapes) |-> FallbackRecord(successfulScrapes[i])]

\* successfulScrapes.find(s => s.word.toLowerCase() === item.word?.toLowerCase())
FindScraped(successfulScrapes, item) ==
  LET at == {i \in 1..Len(successfulScrapes) :
               item.word # "" /\ LowerWord(successfulScrapes[i].word) = LowerWord(item.word)}
  IN IF at = {} THEN ScrapedEntry(NotFoundData(""), "", "")
     ELSE successfulScrapes[CHOOSE i \in at : \A j \in at : i <= j]

\* Lines 273-284: one record of finalResults.
FinalResult(successfulScrapes, item) ==
  LET scraped == FindScraped(successfulScrapes, item)
  IN RecordOf("object", OrStr(item.word, OrStr(scraped.word, "")),
              OrStr(item.part_of_speech, OrStr(scraped.partOfSpeech, "")),
              OrStr(item.cefr_level, OrStr(scraped.cefrLevel, "n.a.")),
              OrText(item.meaning_primary, OrText(scraped.definition, <<>>)),
              OrStr(item.usage_tips, OrStr(FirstExample(scraped), "")))

\* NextResponse.json(body, {status}) of the batch handler; hasFailed tells
\* whether the body has the key `failed`.
BatchResponseOf(status, success, error, data, source, total, hasFailed, failed) ==
  [status |-> status, success |-> success, error |-> error, data |-> data,
   source |-> source, processed |-> Len(data), total |-> total,
   hasFailed |-> hasFailed, failed |-> failed]

BatchError(status, error) == BatchResponseOf(status, FALSE, error, <<>>, "", 0, FALSE, <<>>)

NoBatchResponse == BatchError(0, "")

\* Lines 218-296: from the backend's 2xx answer to the response.
StructureBatch(e, words, scrapedResults, reply) ==
  LET successfulScrapes == SuccessfulScrapes(scrapedResults)
      x == ExtractContent(e, reply)
      clean == CleanContent(x.content)
      isArray == Parses(clean) /\ clean.value.type = "array"
      processedData == IF isArray THEN clean.value.items
                       ELSE FallbackResults(successfulScrapes)
  IN IF x.thrown THEN BatchError(500, "exception")
     ELSE IF x.content.kind = "none"
     THEN BatchResponseOf(200, TRUE, "", FallbackResults(successfulScrapes),
                          "Cambridge Dictionary (fallback)", Len(words), FALSE, <<>>)
     ELSE IF \E i \in 1..Len(processedData) : processedData[i].kind = "null"
     THEN BatchError(500, "exception")
     ELSE BatchResponseOf(200, TRUE, "",
                          [i \in 1..Len(processedData) |->
                             FinalResult(successfulScrapes, processedData[i])],
                          "Cambridge Dictionary + AI Batch Processing", Len(words),
                          TRUE, FailedWords(scrapedResults))

\* Lines 189-296: the answer of fetch(apiUrl) turned into the response.
AfterBatchBackend(e, words, scrapedResults, reply) ==
  CASE reply.kind = "reject" -> BatchError(500, "exception")
    [] reply.kind = "httpError" ->
         BatchResponseOf(200, TRUE, "", FallbackResults(SuccessfulScrapes(scrapedResults)),
                         "Cambridge Dictionary (AI unavailable)", Len(words), FALSE, <<>>)
    [] reply.kind = "notJson" -> BatchError(500, "exception")
    [] OTHER -> StructureBatch(e, words, scrapedResults, reply)

\* The pages a batch run meets: the word is not found, has a bare entry
\* without a definition, or a full entry.
BatchPages ==
  { PageOf("status", FALSE, NoFields), PageOf("ok", TRUE, BareFields(<<>>)),
    PageOf("ok", TRUE, FullFields(DescriptiveText)) }

\* The words of the store's incomplete rows, by row id.
WordList == <<"apple", "bravo", "cedar", "delta", "eagle">>

\* The items a backend may put in its array for the given words: complete,
\* with the word alone, for a word nobody asked for, with the word in
\* another case, or null.
CompleteItem(w) == RecordOf("object", w, "noun", "B1", AiText, "tip")
BareItem(w) == RecordOf("object", w, "", "", <<>>, "")
NullItem == RecordOf("null", "", "", "", <<>>, "")

BatchItems(words) ==
  { CompleteItem(words[i]) : i \in 1..Len(words) }
  \cup { BareItem(words[i]) : i \in 1..Len(words) }
  \cup { CompleteItem("zebra"), NullItem }
  \cup (IF \E i \in 1..Len(words) : words[i] = "apple" THEN {CompleteItem("Apple")} ELSE {})

BatchContents(words) ==
  { NoContent, Garbage, JsonText(JsonObject("noun", AiText), FALSE),
    JsonText(JsonArray(<<CompleteItem(words[1])>>), TRUE) }
  \cup { JsonText(JsonArray(a), FALSE) :
           a \in UNION { [1..n -> BatchItems(words)] : n \in 0..MaxItems } }

BatchReplies(e, words) ==
  { ReplyOf("reject", 0, "none", NoContent), ReplyOf("httpError", 503, "none", NoContent),
    ReplyOf("notJson", 200, "none", NoContent),
    ReplyOf("ok", 200, IF e.useHuggingFace THEN "chat" ELSE "hfArray", Garbage) }
  \cup { ReplyOf("ok", 200, IF e.useHuggingFace THEN "hfArray" ELSE "chat", c) :
           c \in BatchContents(words) }

NoHandler == [pc |-> "idle", words |-> <<>>, scrapedResults |-> <<>>, delays |-> 0]

\* History: the response together with what the handler saw on the way.
BatchAnswered(response, h, reply) ==
  [response |-> response, words |-> h.words, scrapedResults |-> h.scrapedResults,
   delays |-> h.delays, reply |-> reply]

\* Lines 7-18: the handler takes a request in; an absent or empty words
\* array is answered 400.
BatchPost(words) ==
  IF words = <<>>
  THEN /\ bresp' = BatchAnswered(BatchError(400, "Words array is required"), NoHandler, NoReply)
       /\ bsrv' = NoHandler
  ELSE /\ bresp' = BatchAnswered(NoBatchResponse, NoHandler, NoReply)
       /\ bsrv' = [pc |-> "scraping", words |-> words, scrapedResults |-> <<>>, delays |-> 0]

\* Lines 19-64: one iteration of the scraping loop.  The 400 ms pause at
\* its end is skipped by `continue` when no source found the word.
BatchScrapeWord(cPage, oPage) ==
  /\ bsrv.pc = "scraping"
  /\ Len(bsrv.scrapedResults) < Len(bsrv.words)
  /\ LET word == bsrv.words[Len(bsrv.scrapedResults) + 1]
         entry == ChooseFinalData(word, scrapeCambridgeDictionary(word, cPage),
                                  scrapeOxfordDictionary(word, oPage))
     IN bsrv' = [bsrv EXCEPT !.scrapedResults = Append(@, entry),
                             !.delays = IF entry.found THEN @ + 1 ELSE @]
  /\ UNCHANGED <<store, bc, bresp, recon>>
  /\ UNCHANGED <<rlVars, envVars>>

\* Lines 66-109: after the loop; no word found is answered 404, a missing
\* API key 500.
BatchSelectBackend ==
  /\ bsrv.pc = "scraping"
  /\ Len(bsrv.scrapedResults) = Len(bsrv.words)
  /\ IF SuccessfulScrapes(bsrv.scrapedResults) = <<>>
     THEN /\ bresp' = BatchAnswered(BatchError(404, "No words found"), bsrv, NoReply)
          /\ bsrv' = NoHandler
          /\ bc' = [bc EXCEPT !.pc = "received"]
     ELSE IF MissingApiKey(env)
     THEN /\ bresp' = BatchAnswered(BatchError(500, "API key not configured"), bsrv, NoReply)
          /\ bsrv' = NoHandler
          /\ bc' = [bc EXCEPT !.pc = "received"]
     ELSE /\ bsrv' = [bsrv EXCEPT !.pc = "structuring"]
          /\ UNCHANGED <<bresp, bc>>
  /\ UNCHANGED <<store, recon>>
  /\ UNCHANGED <<rlVars, envVars>>

\* Lines 189-303: the backend has answered.
BatchStructured ==
  /\ bsrv.pc = "structuring"
  /\ \E reply \in BatchReplies(env, bsrv.words) :
       bresp' = BatchAnswered(AfterBatchBackend(env, bsrv.words, bsrv.scrapedResults, reply),
                              bsrv, reply)
  /\ bsrv' = NoHandler
  /\ bc' = [bc EXCEPT !.pc = "received"]
  /\ UNCHANGED <<store, recon>>
  /\ UNCHANGED <<rlVars, envVars>>

\* ------------------------------------------------------------------------
\* app/page.tsx, handleBatchFetch
\* ------------------------------------------------------------------------
\* A slice of one row whatever the chunk size.
ChunkOfOne(i, n) == {k \in 1..n : k = i + 1}

\* incompleteWords.slice(i, i + CHUNK_SIZE), as row ids, and its words.
Chunk(i, n) == {k \in 1..n : i < k /\ k <= i + CHUNK_SIZE}

ChunkWords(i, n) == [j \in 1..Cardinality(Chunk(i, n)) |-> WordList[i + j]]

\* result.failed || []
FailedOf(response) == IF response.hasFailed THEN response.failed ELSE <<>>

\* result.data.find(d => d.word.toLowerCase() === w.word.toLowerCase())
InData(data, w) == \E j \in 1..Len(data) : LowerWord(data[j].word) = LowerWord(w)

\* Lines 361-366: the rows of the chunk to delete.
WordsToDelete(chunk, response) ==
  {k \in chunk : \/ Includes(FailedOf(response), WordList[k])
                 \/ ~InData(response.data, WordList[k])}

\* chunk.find(w => w.word.toLowerCase() === wordData.word.toLowerCase()):
\* the row id, 0 when there is none.
WordToUpdate(chunk, wordData) ==
  LET at == {k \in chunk : LowerWord(WordList[k]) = LowerWord(wordData.word)}
  IN IF at = {} THEN 0 ELSE CHOOSE k \in at : \A j \in at : k <= j

\* Lines 387-407: the rows an update is issued for, one per record of data
\* that names a word of the chunk.
UpdateTargets(chunk, data) ==
  SelectSeq([j \in 1..Len(data) |-> WordToUpdate(chunk, data[j])], LAMBDA k : k # 0)

\* totalUpdated++ for every update that came back without an error.
CountOk(targets, failing) == Len(SelectSeq(targets, LAMBDA k : k \notin failing))

Range(seq) == {seq[j] : j \in 1..Len(seq)}

\* The rows after the delete (when it succeeded) and the updates that
\* succeeded; an update of a deleted row changes nothing.
StoreAfter(st, toDelete, deleteOk, targets, failing) ==
  [k \in DOMAIN st |->
     IF deleteOk /\ k \in toDelete THEN "deleted"
     ELSE IF st[k] # "deleted" /\ k \in Range(targets) \ failing THEN "updated"
     ELSE st[k]]

NotStarted ==
  [pc |-> "ready", n |-> 0, i |-> 0, iterations |-> 0, emitted |-> 0,
   batchFetching |-> FALSE, batchProgress |-> [current |-> 0, total |-> 0],
   totalUpdated |-> 0, totalDeleted |-> 0, allFailedWords |-> <<>>,
   error |-> "", alerted |-> FALSE]

NoRecon ==
  [done |-> FALSE, chunk |-> {}, wordsToDelete |-> {}, deleteIssued |-> FALSE,
   updatesIssued |-> {}]

BatchIdle ==
  /\ store = <<>>
  /\ bc = NotStarted
  /\ bsrv = NoHandler
  /\ bresp = BatchAnswered(NoBatchResponse, NoHandler, NoReply)
  /\ recon = NoRecon

\* Lines 314-350: the run starts and posts its first chunk.
StartBatch ==
  /\ endpoint = "batch"
  /\ bc.pc = "ready"
  /\ LET n == Len(store) IN
     IF n = 0
     THEN /\ bc' = [bc EXCEPT !.pc = "ended",
                              !.error = "All words already have complete information!"]
          /\ UNCHANGED <<bsrv, bresp>>
     ELSE /\ bc' = [bc EXCEPT !.pc = "awaiting", !.n = n, !.batchFetching = TRUE,
                              !.batchProgress = [current |-> 0, total |-> n]]
          /\ BatchPost(ChunkWords(0, n))
  /\ UNCHANGED <<store, recon>>
  /\ UNCHANGED <<rlVars, envVars>>

\* Lines 351-411: the chunk's response is in.  A non-success status
\* throws, which ends the run through catch and finally (lines 438-444);
\* otherwise the chunk is reconciled and progress is emitted.
ChunkReconcile(deleteOk, failing) ==
  /\ bc.pc = "received"
  /\ LET response == bresp.response
         chunk == Chunk(bc.i, bc.n)
         toDelete == WordsToDelete(chunk, response)
         targets == UpdateTargets(chunk, response.data)
         deleted == IF toDelete # {} /\ deleteOk THEN Cardinality(toDelete) ELSE 0
         current == bc.i + Cardinality(chunk)
     IN IF response.status # 200
        THEN /\ bc' = [bc EXCEPT !.pc = "ended", !.error = response.error,
                                 !.batchFetching = FALSE,
                                 !.batchProgress = [current |-> 0, total |-> 0]]
             /\ recon' = [NoRecon EXCEPT !.done = TRUE, !.chunk = chunk]
             /\ UNCHANGED store
        ELSE /\ store' = StoreAfter(store, toDelete, deleteOk, targets, failing)
             /\ recon' = [done |-> TRUE, chunk |-> chunk, wordsToDelete |-> toDelete,
                          deleteIssued |-> (toDelete # {}),
                          updatesIssued |-> Range(targets)]
             /\ bc' = [bc EXCEPT !.pc = "reconciled", !.iterations = @ + 1,
                                 !.emitted = current,
                                 !.batchProgress.current = current,
                                 !.totalDeleted = @ + deleted,
                                 !.totalUpdated = @ + CountOk(targets, failing),
                                 !.allFailedWords = @ \o FailedOf(response)]
  /\ UNCHANGED <<bsrv, bresp>>
  /\ UNCHANGED <<rlVars, envVars>>

\* Lines 413-444: after the pause the next chunk is posted; after the last
\* chunk the list is refreshed, the summary shown and the state reset.
ChunkAdvance ==
  /\ bc.pc = "reconciled"
  /\ IF bc.i + CHUNK_SIZE < bc.n
     THEN /\ bc' = [bc EXCEPT !.pc = "awaiting", !.i = bc.i + CHUNK_SIZE]
          /\ BatchPost(ChunkWords(bc.i + CHUNK_SIZE, bc.n))
          /\ recon' = NoRecon
     ELSE /\ bc' = [bc EXCEPT !.pc = "ended", !.error = "", !.alerted = TRUE,
                              !.batchFetching = FALSE,
                              !.batchProgress = [current |-> 0, total |-> 0]]
          /\ UNCHANGED <<bsrv, bresp, recon>>
  /\ UNCHANGED store
  /\ UNCHANGED <<rlVars, envVars>>

\* ------------------------------------------------------------------------
\* Specifications
\* ------------------------------------------------------------------------

\* The rate limiter under arbitrary callers, clock and sweep.
RLInit == RLStart /\ FlightsIdle /\ MergeIdle /\ ScoreIdle /\ EnvIdle /\ SingleIdle /\ BatchIdle

RLNext ==
  /\ \/ Tick
     \/ Sweep
     \/ \E id \in Identifiers : CallCheckRateLimit(id)
  /\ UNCHANGED <<mergeVars, scoreVars, flightVars, envVars, singleVars, batchVars>>

SpecRL == RLInit /\ [][RLNext]_vars

\* Concurrent single-word requests of one client against the rate limiter.
FlightsInit ==
  /\ now = 0
  /\ rateLimitMap = <<>>
  /\ config = ApiRateLimit
  /\ lastCall = NoCall
  /\ window = [id \in Identifiers |-> NoWindow]
  /\ unswept = <<>>
  /\ flights = [reqs |-> [r \in Requests |-> "new"], admitted |-> 0]
  /\ MergeIdle /\ ScoreIdle /\ EnvIdle /\ SingleIdle /\ BatchIdle

FlightsNext ==
  /\ \/ Tick /\ UNCHANGED flights
     \/ Sweep /\ UNCHANGED flights
     \/ \E r \in Requests, id \in ApiClients : Arrive(r, id)
     \/ \E r \in Requests : Resume(r)
  /\ UNCHANGED <<mergeVars, scoreVars, envVars, singleVars, batchVars>>

SpecFlights == FlightsInit /\ [][FlightsNext]_vars

\* mergeDefinitionSources on every list of entries within the bounds.
RankerInit == MergeInit /\ ScoreIdle /\ RLIdle /\ FlightsIdle /\ EnvIdle /\ SingleIdle /\ BatchIdle

RankerNext == Merge /\ UNCHANGED <<rlVars, scoreVars, flightVars, envVars, singleVars, batchVars>>

SpecRanker == RankerInit /\ [][RankerNext]_vars

\* mergeDefinitionSources on every list of entries without examples within
\* the bounds.
BackfillInit ==
  PlainInit /\ ScoreIdle /\ RLIdle /\ FlightsIdle /\ EnvIdle /\ SingleIdle /\ BatchIdle

SpecBackfill == BackfillInit /\ [][RankerNext]_vars

\* mergeDefinitionSources on every list of entries with any examples
\* within the bounds.
ExamplesSpecInit ==
  ExamplesInit /\ ScoreIdle /\ RLIdle /\ FlightsIdle /\ EnvIdle /\ SingleIdle /\ BatchIdle

SpecExamples == ExamplesSpecInit /\ [][RankerNext]_vars

\* scoreDefinitionQuality on every pair of definition strings within the
\* bounds.
ScorerInit == ScoreInit /\ MergeIdle /\ RLIdle /\ FlightsIdle /\ EnvIdle /\ SingleIdle /\ BatchIdle

ScorerNext ==
  (\E k \in Slots : Score(k))
    /\ UNCHANGED <<rlVars, mergeVars, flightVars, envVars, singleVars, batchVars>>

SpecScorer == ScorerInit /\ [][ScorerNext]_vars

\* The endpoints under arbitrary clients, dictionary pages, backend
\* answers and environments.
ApiInit ==
  /\ now = 0
  /\ rateLimitMap = <<>>
  /\ config = ApiRateLimit
  /\ lastCall = NoCall
  /\ window = [id \in Identifiers |-> NoWindow]
  /\ unswept = <<>>
  /\ FlightsIdle
  /\ MergeIdle
  /\ ScoreIdle
  /\ env \in Envs
  /\ endpoint \in {"single", "batch"}
  /\ SingleIdle
  /\ store \in IF endpoint = "batch"
               THEN {[k \in 1..n |-> "incomplete"] : n \in 0..MaxWords}
               ELSE {<<>>}
  /\ bc = NotStarted
  /\ bsrv = NoHandler
  /\ bresp = BatchAnswered(NoBatchResponse, NoHandler, NoReply)
  /\ recon = NoRecon

\* The clock is read by checkRateLimit alone, which the batch handler
\* never calls.
ApiNext ==
  \/ (endpoint = "single" /\ Tick /\ UNCHANGED <<mergeVars, scoreVars, flightVars, envVars, singleVars, batchVars>>)
  \/ (endpoint = "single" /\ Sweep /\ UNCHANGED <<mergeVars, scoreVars, flightVars, envVars, singleVars, batchVars>>)
  \/ (\E id \in ApiClients, body \in SingleBodies : SingleRequest(id, body))
       /\ UNCHANGED <<mergeVars, scoreVars, flightVars, batchVars>>
  \/ (\E cPage \in Pages, oPage \in Pages : SingleScraped(cPage, oPage))
       /\ UNCHANGED <<mergeVars, scoreVars, flightVars, batchVars>>
  \/ (\E reply \in Replies : SingleStructured(reply)) /\ UNCHANGED <<mergeVars, scoreVars, flightVars, batchVars>>
  \/ StartBatch /\ UNCHANGED <<mergeVars, scoreVars, flightVars, singleVars>>
  \/ (\E cPage \in BatchPages, oPage \in BatchPages : BatchScrapeWord(cPage, oPage))
       /\ UNCHANGED <<mergeVars, scoreVars, flightVars, singleVars>>
  \/ BatchSelectBackend /\ UNCHANGED <<mergeVars, scoreVars, flightVars, singleVars>>
  \/ BatchStructured /\ UNCHANGED <<mergeVars, scoreVars, flightVars, singleVars>>
  \/ (\E deleteOk \in BOOLEAN, failing \in SUBSET Chunk(bc.i, bc.n) :
         ChunkReconcile(deleteOk, failing))
       /\ UNCHANGED <<mergeVars, scoreVars, flightVars, singleVars>>
  \/ ChunkAdvance /\ UNCHANGED <<mergeVars, scoreVars, flightVars, singleVars>>

SpecApi == ApiInit /\ [][ApiNext]_vars

\* The single-word endpoint alone, with the one step the code schedules by
\* itself: the sweep that setInterval runs every five minutes.  A request
\* in flight goes on only when the dictionary sites and the backend
\* answer; the handler sets no timer on its fetch calls.
SingleLiveInit == ApiInit /\ endpoint = "single"

SingleNext ==
  \/ (Tick /\ UNCHANGED <<mergeVars, scoreVars, flightVars, envVars, singleVars, batchVars>>)
  \/ (Sweep /\ UNCHANGED <<mergeVars, scoreVars, flightVars, envVars, singleVars, batchVars>>)
  \/ (\E id \in ApiClients, body \in SingleBodies : SingleRequest(id, body))
       /\ UNCHANGED <<mergeVars, scoreVars, flightVars, batchVars>>
  \/ (\E cPage \in Pages, oPage \in Pages : SingleScraped(cPage, oPage))
       /\ UNCHANGED <<mergeVars, scoreVars, flightVars, batchVars>>
  \/ (\E reply \in Replies : SingleStructured(reply))
       /\ UNCHANGED <<mergeVars, scoreVars, flightVars, batchVars>>

SpecSingleLive ==
  /\ SingleLiveInit
  /\ [][SingleNext]_vars
  /\ WF_vars(Sweep /\ UNCHANGED <<mergeVars, scoreVars, flightVars, envVars, singleVars, batchVars>>)

\* ------------------------------------------------------------------------
\* Claims
\* ------------------------------------------------------------------------

\* C1: with maxRequests >= 1, among the checkRateLimit calls of one window
\* exactly the first maxRequests are allowed and every later one is
\* rejected; the call that opens a window (the first ever, or the first
\* after the previous window elapsed) is allowed, has
\* remaining = maxRequests - 1 and resetTime = now + windowMs.
C1_FixedWindow ==
  (lastCall.id # "" /\ config.maxRequests >= 1) =>
    /\ lastCall.allowed = (lastCall.nth <= config.maxRequests)
    /\ lastCall.opened =>
         /\ lastCall.allowed
         /\ lastCall.remaining = config.maxRequests - 1
         /\ lastCall.resetTime = lastCall.at + config.windowMs

\* A window saw more calls than maxRequests, and the first call after it
\* elapsed opened a fresh window and was allowed.
C1_Witness ==
  /\ config.maxRequests >= 1
  /\ lastCall.id # ""
  /\ lastCall.opened
  /\ lastCall.allowed
  /\ window[lastCall.id].prevCalls > config.maxRequests

\* C2: a batch run over N >= 1 incomplete words that has ended went
\* through ceil(N / CHUNK_SIZE) chunk iterations, and the last progress
\* value its loop emitted is N.
C2_AllChunksProcessed ==
  (bc.pc = "ended" /\ bc.n >= 1) =>
    /\ bc.iterations = (bc.n + CHUNK_SIZE - 1) \div CHUNK_SIZE
    /\ bc.emitted = bc.n

\* C3: once a chunk's response has been handled, every word of the chunk
\* that no source found is in the `failed` list of a success response, its
\* row is deleted, and no update was issued for it.
C3_NotFoundFailedAndDeleted ==
  recon.done =>
    \A j \in 1..Len(bresp.scrapedResults) :
      ~bresp.scrapedResults[j].found =>
        /\ bresp.response.success =>
             /\ bresp.response.hasFailed
             /\ Includes(bresp.response.failed, bresp.scrapedResults[j].word)
        /\ store[bc.i + j] = "deleted"
        /\ (bc.i + j) \notin recon.updatesIssued

\* C4: once a chunk's success response has been reconciled, every word of
\* the chunk that a source found is in the response data, had an update
\* issued, and is not in the deletion set.
C4_FoundWordsKept ==
  (recon.done /\ bresp.response.success) =>
    \A j \in 1..Len(bresp.scrapedResults) :
      bresp.scrapedResults[j].found =>
        /\ InData(bresp.response.data, bresp.scrapedResults[j].word)
        /\ (bc.i + j) \in recon.updatesIssued
        /\ (bc.i + j) \notin recon.wordsToDelete

\* The entries of the given list that carry a definition.
C5_Valid == {i \in 1..Len(given) : HasDefinition(given[i])}

\* The first entry, in input order, that reaches the highest score.
C5_Winner ==
  CHOOSE i \in C5_Valid :
    /\ \A j \in C5_Valid :
         scoreDefinitionQuality(given[j].definition)
           <= scoreDefinitionQuality(given[i].definition)
    /\ \A j \in C5_Valid :
         scoreDefinitionQuality(given[j].definition)
           = scoreDefinitionQuality(given[i].definition) => i <= j

\* C5: for a non-empty list with at least one non-empty definition the
\* merge result carries the definition of the entry with the highest
\* scoreDefinitionQuality, the first such entry in input order on a tie.
C5_BestDefinitionWins ==
  (merged.called /\ C5_Valid # {}) =>
    merged.definition = given[C5_Winner].definition

\* A tie between two different definitions was decided for the first, and
\* a later entry beat an earlier, lower-scored one.
C5_Witness ==
  /\ merged.called
  /\ Len(given) = 2
  /\ given[1].definition = OtherDescriptiveText
  /\ given[2].definition = DescriptiveText
  /\ scoreDefinitionQuality(OtherDescriptiveText) = scoreDefinitionQuality(DescriptiveText)
  /\ merged.definition = OtherDescriptiveText

\* The definition in the text handed to the backend (<<>> when it has none).
C6_DefinitionSent(text) ==
  LET at == {i \in 1..Len(text) : text[i].label = "Definition"}
  IN IF at = {} THEN <<>> ELSE text[CHOOSE i \in at : TRUE].text

\* C6: when Cambridge finds the word with a form-change definition and
\* Oxford finds it with a descriptive one, the single-word endpoint hands
\* the descriptive definition to the backend and never returns the
\* form-change text as meaning_primary.
C6_DescriptiveEvidenceUsed ==
  LET c == sresp.cambridgeData
      o == sresp.oxfordData
  IN (/\ sresp.reply.kind # "none"
      /\ c.found /\ c.definition # <<>> /\ isFormChangeDefinition(c.definition)
      /\ o.found /\ o.definition # <<>> /\ ~isFormChangeDefinition(o.definition)) =>
       /\ C6_DefinitionSent(sresp.scrapedDataText) = o.definition
       /\ sresp.response.success => sresp.response.data.meaning_primary # c.definition

\* C7: a success response of the single-word endpoint carries a non-empty
\* part_of_speech and a non-empty meaning_primary, and so does every
\* record of a success response of the batch endpoint.
C7_SuccessHasFields ==
  /\ sresp.response.success =>
       /\ sresp.response.data.part_of_speech # ""
       /\ sresp.response.data.meaning_primary # <<>>
  /\ bresp.response.success =>
       \A j \in 1..Len(bresp.response.data) :
         /\ bresp.response.data[j].part_of_speech # ""
         /\ bresp.response.data[j].meaning_primary # <<>>

\* C8: when the backend's output parses as JSON and has no meaning_primary,
\* the single-word endpoint answers with success and with the scraped
\* definition as meaning_primary, which is not empty.
C8_MeaningFromEvidence ==
  LET x == ExtractContent(env, sresp.reply)
      clean == CleanContent(x.content)
  IN (/\ sresp.reply.kind = "ok" /\ ~x.thrown
      /\ Parses(clean) /\ Field(clean.value).meaning_primary = <<>>) =>
       /\ sresp.response.success
       /\ sresp.response.data.meaning_primary = sresp.dictionaryData.definition
       /\ sresp.response.data.meaning_primary # <<>>

\* The backend answered with HTTP success and a body of the selected
\* backend's shape, but the generated text is empty, is not JSON, or is
\* JSON without a part_of_speech or a meaning_primary.
C9_Malformed ==
  LET content == sresp.reply.content
      clean == CleanContent(content)
  IN /\ sresp.reply.kind = "ok"
     /\ sresp.reply.shape \in (IF env.useHuggingFace THEN {"hfArray", "hfObject"}
                              ELSE {"chat"})
     /\ \/ content.kind \in {"none", "garbage"}
        \/ Parses(clean) /\ Incomplete(clean.value)

\* C9: malformed backend output never surfaces as an error of the
\* single-word endpoint: the response is a success whose part_of_speech
\* and meaning_primary are the scraped ones wherever the scrape has them.
C9_MalformedRecovered ==
  C9_Malformed =>
    /\ sresp.response.success
    /\ sresp.response.status = 200
    /\ sresp.dictionaryData.partOfSpeech # "" =>
         sresp.response.data.part_of_speech = sresp.dictionaryData.partOfSpeech
    /\ sresp.dictionaryData.definition # <<>> =>
         sresp.response.data.meaning_primary = sresp.dictionaryData.definition

\* No key is set for the backend the environment selects.
C10_NoCredentials ==
  \/ env.useHuggingFace /\ ~env.hfKey
  \/ ~env.useHuggingFace /\ ~env.useLMStudio /\ ~env.openaiKey

\* The batch handler got past the scraping loop with a word found.
C10_BatchPastScrape ==
  /\ bresp.response.status # 0
  /\ \E j \in 1..Len(bresp.scrapedResults) : bresp.scrapedResults[j].found

\* C10: without credentials the single-word endpoint answers 500
\* with the configuration hint, and the batch endpoint answers with
\* success and the records built from the scraped data.
C10_BatchDowngrades ==
  C10_NoCredentials =>
    /\ sresp.dictionaryData.found =>
         /\ sresp.response.status = 500
         /\ sresp.response.error = "API key not configured"
    /\ C10_BatchPastScrape =>
         /\ bresp.response.success
         /\ bresp.response.data = FallbackResults(SuccessfulScrapes(bresp.scrapedResults))

\* C10, for both endpoints alike: without credentials each answers 500 with the
\* configuration hint once a source has found a word, and neither calls
\* the backend.
C10_BothFailWithHint ==
  C10_NoCredentials =>
    /\ sresp.dictionaryData.found =>
         /\ sresp.response.status = 500 /\ ~sresp.response.success
         /\ sresp.response.error = "API key not configured"
         /\ sresp.reply = NoReply
    /\ C10_BatchPastScrape =>
         /\ bresp.response.status = 500 /\ ~bresp.response.success
         /\ bresp.response.error = "API key not configured"
         /\ bresp.reply = NoReply

\* The batch endpoint answered 500 with the hint for a chunk of which a
\* word was found, and the client's run ended with that error.
C10_Witness ==
  /\ C10_NoCredentials
  /\ C10_BatchPastScrape
  /\ bresp.response.status = 500
  /\ bc.pc = "ended"
  /\ bc.error = "API key not configured"

\* The backend call came back with a non-success status or did not come
\* back at all (fetch rejected).
C11_BackendFailed(reply) == reply.kind \in {"reject", "httpError"}

\* C11: a backend call that fails or answers a non-success status makes
\* the single-word endpoint answer with an error; the batch endpoint
\* answers such a call with success and the records built from the scraped
\* data, and the client's run does not end with an error on that chunk.
C11_BatchBackendFailureDowngraded ==
  /\ C11_BackendFailed(sresp.reply) =>
       /\ ~sresp.response.success
       /\ sresp.response.status >= 400
  /\ C11_BackendFailed(bresp.reply) =>
       /\ bresp.response.success
       /\ bresp.response.status = 200
       /\ bresp.response.data = FallbackResults(SuccessfulScrapes(bresp.scrapedResults))
       /\ bc.pc = "ended" => bc.error = ""

\* The request passed the rate limit and validation and both scrapers have
\* answered.
C12_Scraped == sresp.word # "" /\ sresp.response.status # 0

\* Some source found the word of the request.
C12_Found == sresp.cambridgeData.found \/ sresp.oxfordData.found

\* C12: the single-word endpoint answers 404 exactly for a request that
\* was let through and whose word no source found; a word some source
\* found is never answered 404, and no backend call is made for a word
\* that was not found.
C12_NotFoundExactly404 ==
  /\ sresp.response.status = 404 <=> (C12_Scraped /\ ~C12_Found)
  /\ (C12_Scraped /\ ~C12_Found) => sresp.reply = NoReply

\* C13: mergeDefinitionSources on a list without any non-empty definition
\* (the empty list included) returns the not-found result, source 'None'
\* with an empty definition, and leaves the list as it was given.
C13_NoDefinitionGivesNone ==
  (merged.called /\ \A i \in 1..Len(given) : given[i].definition = <<>>) =>
    /\ merged = NoneResult
    /\ merged.source = SourceLabel("None", FALSE, <<>>)
    /\ merged.definition = <<>>
    /\ sources = given

\* Two entries with examples and attributes but no definition were merged
\* into the not-found result.
C13_Witness ==
  /\ merged.called
  /\ Len(given) = 2
  /\ given[1].definition = <<>> /\ given[2].definition = <<>>
  /\ given[1].hasExamples /\ given[2].cefrLevel # ""
  /\ merged.source.base = "None"

\* The empty list was merged into the not-found result.
C13_WitnessEmpty == merged.called /\ given = <<>> /\ merged = NoneResult

\* C14: a scored definition string that matches a form-change pattern
\* has a score of at most 35, whatever its length and wording.
C14_FormChangeAtMost35 ==
  \A k \in Slots :
    (scores[k] # Unscored /\ isFormChangeDefinition(scored[k])) => scores[k] <= 35

\* C15: of two scored definition strings, one matching a form-change
\* pattern and one of at least 10 words matching none, the form-change
\* one has the strictly lower score, whichever bonuses either earns.
C15_FormChangeBelowDescriptive ==
  \A f \in Slots, d \in Slots :
    ( /\ scores[f] # Unscored /\ scores[d] # Unscored
      /\ isFormChangeDefinition(scored[f])
      /\ ~isFormChangeDefinition(scored[d]) /\ Len(scored[d]) >= 10 )
    => scores[f] < scores[d]

\* A form-change string of 15 words or more with every bonus was scored
\* against a string of exactly 10 plain words with none.
C15_Witness ==
  /\ scores["first"] # Unscored /\ scores["second"] # Unscored
  /\ isFormChangeDefinition(scored["first"])
  /\ Len(scored["first"]) >= 15
  /\ HasInfinitive(scored["first"]) /\ HasRelative(scored["first"])
  /\ HasTerminology(scored["first"])
  /\ scored["second"] = Filler(10)
  /\ scores["first"] < scores["second"]

\* The sources, other than the winner's, whose entry carries a definition.
C16_OtherContributors == {given[i].source : i \in C5_Valid \ {C5_Winner}}

\* C16: the source name of a merge result is the winning entry's source,
\* followed by exactly the other sources that supplied a non-empty
\* definition; no source with an empty definition is named, and a single
\* contributing source is named alone.
C16_SourceNamesContributors ==
  (merged.called /\ C5_Valid # {}) =>
    /\ merged.source.base = given[C5_Winner].source
    /\ Range(merged.source.others) = C16_OtherContributors
    /\ Len(merged.source.others) = Cardinality(C16_OtherContributors)
    /\ merged.source.plus <=> Cardinality(C5_Valid) > 1
    /\ \A i \in 1..Len(given) :
         given[i].definition = <<>> =>
           /\ given[i].source # merged.source.base
           /\ given[i].source \notin Range(merged.source.others)

\* The second source won over the first, which is named after it.
C16_Witness ==
  /\ merged.called
  /\ Len(given) = 2
  /\ given[1].definition = FormChangeText
  /\ given[2].definition = DescriptiveText
  /\ merged.source = SourceLabel("Oxford Dictionary", TRUE, <<"Cambridge Dictionary">>)

\* Of two entries only the second carries a definition and is named alone.
C16_WitnessAlone ==
  /\ merged.called
  /\ Len(given) = 2
  /\ given[1].definition = <<>>
  /\ given[2].definition = DescriptiveText
  /\ merged.source = SourceLabel("Oxford Dictionary", FALSE, <<>>)

\* The run was ended by the error answer to the chunk that starts after
\* row bc.i.
C17_Aborted == bc.pc = "ended" /\ bresp.response.status \notin {0, 200}

\* The rows deleted by the chunks before the aborted one.
C17_DeletedBefore == {k \in 1..bc.i : store[k] = "deleted"}

\* C17: when a run is aborted by an error on a chunk, the summary with the
\* counts accumulated over the earlier chunks is shown to the caller, and
\* the deletes and updates of those chunks stay applied.
C17_PartialResultsSurfaced ==
  C17_Aborted =>
    /\ bc.alerted
    /\ Cardinality(C17_DeletedBefore) = bc.totalDeleted
    /\ \A k \in recon.chunk : store[k] = "incomplete"

\* C18: every single-word request that was let through is eventually
\* answered, whether or not the dictionary sites and the backend answer.
C18_EveryRequestAnswered == (spc # "idle") ~> (spc = "idle" /\ sresp.response.status # 0)

\* The request was let through and both scrapers have settled.
C19_Settled == sresp.word # "" /\ sresp.response.status # 0

\* The request went on to the backend stage with the given entry: the
\* answer is not the not-found answer, and either the backend was called
\* or its key is missing.
C19_ProceedsWith(data) ==
  /\ sresp.dictionaryData = data
  /\ sresp.response.error # "not found"
  /\ sresp.reply = NoReply => sresp.response.error = "API key not configured"

\* C19: when one source failed (rejected fetch, non-success status,
\* exception while parsing) and the other found the word, the request is
\* neither answered as not found nor failed by that source: it goes on
\* with the other source's entry.
C19_SourceFailureTolerated ==
  C19_Settled =>
    /\ ("cambridge" \in sresp.failedSources /\ sresp.oxfordData.found)
         => C19_ProceedsWith(sresp.oxfordData)
    /\ ("oxford" \in sresp.failedSources /\ sresp.cambridgeData.found)
         => C19_ProceedsWith(sresp.cambridgeData)

\* Cambridge failed, Oxford found the word, and the endpoint answered
\* with success from Oxford's entry.
C19_Witness ==
  /\ C19_Settled
  /\ "cambridge" \in sresp.failedSources
  /\ sresp.oxfordData.found
  /\ sresp.response.success
  /\ sresp.response.source = "Oxford Dictionary"
  /\ sresp.dictionaryData = sresp.oxfordData

\* C20: in the batch endpoint, whenever the fetch of a further word is
\* about to start, the pause has elapsed once for every word fetched so
\* far, whether that word was found or not.
C20_PauseBeforeNextWord ==
  (bsrv.pc = "scraping" /\ Len(bsrv.scrapedResults) < Len(bsrv.words)) =>
    bsrv.delays = Len(bsrv.scrapedResults)

\* C21: with several requests of one client in flight, interleaved at
\* their awaits in any order, no increment of the counter is lost (the
\* entry's count is the number of requests admitted in its window) and no
\* window admits more than maxRequests requests.
C21_AtomicCheckAndIncrement ==
  \A id \in ApiClients :
    /\ flights.admitted <= config.maxRequests
    /\ (flights.reqs # <<>> /\ id \in DOMAIN rateLimitMap) =>
         rateLimitMap[id].count = flights.admitted

\* The window is full, a third request was refused, and the admitted
\* requests are waiting at different awaits.
C21_Witness ==
  /\ flights.reqs # <<>>
  /\ flights.admitted = config.maxRequests
  /\ \E a \in Requests, b \in Requests, c \in Requests :
       /\ flights.reqs[a] = "scraping"
       /\ flights.reqs[b] = "structuring"
       /\ flights.reqs[c] = "rejected"

\* The entries other than the winner that carry a definition and a level
\* (a pronunciation).
C22_LevelCandidates == {i \in C5_Valid \ {C5_Winner} : given[i].cefrLevel # ""}
C22_PronunciationCandidates ==
  {i \in C5_Valid \ {C5_Winner} : given[i].pronunciation # ""}

\* j is a highest-scored entry of the set.
C22_Top(j, set) ==
  /\ j \in set
  /\ \A i \in set : scoreDefinitionQuality(given[i].definition)
                       <= scoreDefinitionQuality(given[j].definition)

\* C22: a level or pronunciation the winning entry lacks is taken from
\* the highest-scored other entry that carries a definition and has the
\* value, and from no entry without a definition.
C22_BackfillByScore ==
  (merged.called /\ C5_Valid # {}) =>
    /\ given[C5_Winner].cefrLevel = "" =>
         IF C22_LevelCandidates = {} THEN merged.cefrLevel = ""
         ELSE \E j \in C22_LevelCandidates :
                C22_Top(j, C22_LevelCandidates) /\ merged.cefrLevel = given[j].cefrLevel
    /\ given[C5_Winner].pronunciation = "" =>
         IF C22_PronunciationCandidates = {} THEN merged.pronunciation = ""
         ELSE \E j \in C22_PronunciationCandidates :
                /\ C22_Top(j, C22_PronunciationCandidates)
                /\ merged.pronunciation = given[j].pronunciation

\* The first entry of the given list, in input order, that has a level
\* (a pronunciation); 0 when none has.
C22_FirstWithLevel ==
  LET has == {i \in 1..Len(given) : given[i].cefrLevel # ""}
  IN IF has = {} THEN 0 ELSE CHOOSE i \in has : \A j \in has : i <= j
C22_FirstWithPronunciation ==
  LET has == {i \in 1..Len(given) : given[i].pronunciation # ""}
  IN IF has = {} THEN 0 ELSE CHOOSE i \in has : \A j \in has : i <= j

\* C22, as the loop does it: a level or pronunciation the winning entry
\* lacks is taken from the first entry in input order that has one,
\* whatever its score and whether or not it carries a definition; a
\* value the winner has is kept.
C22_BackfillInInputOrder ==
  (merged.called /\ C5_Valid # {}) =>
    /\ merged.cefrLevel =
         IF given[C5_Winner].cefrLevel # "" THEN given[C5_Winner].cefrLevel
         ELSE IF C22_FirstWithLevel = 0 THEN ""
         ELSE given[C22_FirstWithLevel].cefrLevel
    /\ merged.pronunciation =
         IF given[C5_Winner].pronunciation # "" THEN given[C5_Winner].pronunciation
         ELSE IF C22_FirstWithPronunciation = 0 THEN ""
         ELSE given[C22_FirstWithPronunciation].pronunciation

\* The winner, second in the list, has no level; the level comes from
\* the first entry, which has no definition, not from the third, which
\* has one.
C22_Witness ==
  /\ merged.called
  /\ Len(given) = 3
  /\ given[1].definition = <<>> /\ given[1].cefrLevel = "C1"
  /\ given[2].definition = DescriptiveText /\ given[2].cefrLevel = ""
  /\ given[3].definition = FormChangeText /\ given[3].cefrLevel = "B2"
  /\ merged.definition = DescriptiveText
  /\ merged.cefrLevel = "C1"

\* No text occurs twice in the sequence.
C23_Distinct(seq) == \A i \in 1..Len(seq), j \in 1..Len(seq) : seq[i] = seq[j] => i = j

\* The winning entry's examples as handed in (none when it has no list).
C23_WinnerExamples ==
  IF given[C5_Winner].hasExamples THEN given[C5_Winner].examples ELSE <<>>

\* C23: the examples of the merge result are at most three texts, no
\* text twice, starting with the winning entry's own examples in their
\* original order.
C23_ExamplesCappedDistinctWinnerFirst ==
  (merged.called /\ C5_Valid # {} /\ merged.hasExamples) =>
    /\ Len(merged.examples) <= ExampleCap
    /\ C23_Distinct(merged.examples)
    /\ Len(C23_WinnerExamples) <= Len(merged.examples)
    /\ SubSeq(merged.examples, 1, Len(C23_WinnerExamples)) = C23_WinnerExamples

\* C24: mergeDefinitionSources leaves every input entry as it was handed
\* in, the winning entry and its examples list included.
C24_InputsUnchanged == merged.called => sources = given

\* C25: the sweep deletes only entries whose window has expired, and the
\* callers cannot tell whether it ran: the map holds the entries of the
\* sweep-free run except expired ones, a call made now gets the result
\* the sweep-free run gives, and every call that is made gets that result.
C25_SweepInvisibleNow ==
  \A id \in Identifiers :
    /\ id \in DOMAIN rateLimitMap =>
         id \in DOMAIN unswept /\ rateLimitMap[id] = unswept[id]
    /\ (id \in DOMAIN unswept /\ id \notin DOMAIN rateLimitMap) =>
         now > unswept[id].resetTime
    /\ checkRateLimit(rateLimitMap, id, config, now).result
         = checkRateLimit(unswept, id, config, now).result

C25_SameResult ==
  lastCall' # lastCall =>
    LET r == checkRateLimit(unswept, lastCall'.id, config, now).result IN
    /\ lastCall'.allowed = r.allowed
    /\ lastCall'.remaining = r.remaining
    /\ lastCall'.resetTime = r.resetTime

C25_SweepInvisible == []C25_SweepInvisibleNow /\ [][C25_SameResult]_vars

\* An identifier that was limited in its elapsed window got its next call
\* answered in a fresh window, and the sweep has deleted another
\* identifier's expired entry.
C25_Witness ==
  \E id \in Identifiers :
    /\ lastCall.id = id /\ lastCall.opened /\ lastCall.allowed
    /\ window[id].prevCalls > config.maxRequests
    /\ \E other \in Identifiers :
         other \in DOMAIN unswept /\ other \notin DOMAIN rateLimitMap

\* The run is between its first post and its end.
C26_Running == bc.pc \in {"awaiting", "received", "reconciled"}

\* C26: during a batch run `current` never decreases and never exceeds
\* `total`, `total` is the number of incomplete words the run started
\* with, `current` advances by the chunk's length after each chunk, and
\* progress is 0/0 once the run has ended, completed or aborted.
C26_ProgressNow ==
  /\ C26_Running =>
       /\ bc.batchProgress.total = bc.n
       /\ bc.n = Len(store)
       /\ 0 <= bc.batchProgress.current
       /\ bc.batchProgress.current <= bc.batchProgress.total
  /\ bc.pc = "ended" => bc.batchProgress = [current |-> 0, total |-> 0]

C26_ProgressStep ==
  /\ (C26_Running /\ bc'.pc # "ended") =>
       /\ bc'.batchProgress.current >= bc.batchProgress.current
       /\ bc'.batchProgress.total = bc.batchProgress.total
  /\ (bc.pc = "received" /\ bc'.pc = "reconciled") =>
       bc'.batchProgress.current
         = bc.batchProgress.current + Cardinality(Chunk(bc.i, bc.n))

C26_ProgressMonotoneBounded == []C26_ProgressNow /\ [][C26_ProgressStep]_vars

\* The second, shorter chunk of a run of three words has been reconciled.
C26_Witness ==
  /\ bc.pc = "reconciled"
  /\ bc.n = 3 /\ bc.i = CHUNK_SIZE
  /\ bc.batchProgress = [current |-> 3, total |-> 3]

\* The entry of id is the same before and after the step.
C27_EntryKept(id) ==
  /\ (id \in DOMAIN rateLimitMap') = (id \in DOMAIN rateLimitMap)
  /\ id \in DOMAIN rateLimitMap => rateLimitMap'[id] = rateLimitMap[id]

\* C27: a rejected checkRateLimit call leaves the identifier's count and
\* resetTime as they were, and no call touches the entry of another
\* identifier.
C27_CallStep ==
  lastCall' # lastCall =>
    /\ ~lastCall'.allowed =>
         /\ lastCall'.id \in DOMAIN rateLimitMap
         /\ C27_EntryKept(lastCall'.id)
    /\ \A other \in Identifiers \ {lastCall'.id} : C27_EntryKept(other)

C27_RejectedCallChangesNothing == [][C27_CallStep]_vars

\* A call was rejected after time had passed in its window, while the
\* other identifier has an entry too.
C27_Witness ==
  /\ lastCall.id = "ip1" /\ ~lastCall.allowed
  /\ lastCall.nth > config.maxRequests + 1
  /\ lastCall.at + config.windowMs > lastCall.resetTime
  /\ rateLimitMap["ip1"].resetTime = lastCall.resetTime
  /\ "ip2" \in DOMAIN rateLimitMap

\* C28: every result has 0 <= remaining <= maxRequests; an allowed result
\* has remaining = maxRequests minus the requests admitted so far in the
\* window; a rejected result has remaining = 0; with maxRequests = 0 no
\* request is admitted.
C28_RemainingWithinBounds ==
  lastCall.id # "" =>
    /\ 0 <= lastCall.remaining
    /\ lastCall.remaining <= config.maxRequests
    /\ lastCall.allowed => lastCall.remaining = config.maxRequests - lastCall.nth
    /\ ~lastCall.allowed => lastCall.remaining = 0
    /\ config.maxRequests = 0 => ~lastCall.allowed

\* The step is the first part of the single-word handler, up to the
\* answer 429, 400 or 500 or to the start of the source fetches: it
\* answers, starts the fetches, or changes the map as no sweep does.
C29_RequestStep ==
  /\ endpoint = "single"
  /\ spc = "idle"
  /\ \/ sresp' # sresp
     \/ spc' # spc
     \/ rateLimitMap' \notin {rateLimitMap, Cleanup(rateLimitMap, now)}

\* The units the client's window holds after one more admitted request.
C29_OneMore(id) ==
  IF WindowExpired(rateLimitMap, id, now) THEN 1 ELSE rateLimitMap[id].count + 1

\* C29: the rate-limit check gates the rest of the single-word handler.
\* A request answered 429 starts no source fetch, carries no source or
\* backend data and consumes nothing; every other request consumes
\* exactly one unit of its client's window when it arrives, and nothing
\* more while it is fetched, structured and answered 404, 500 or 200.
C29_GateStep ==
  /\ C29_RequestStep =>
       IF sresp'.response.status = 429
       THEN /\ spc' = "idle"
            /\ rateLimitMap' = rateLimitMap
            /\ sresp' = Answered(sresp'.response, NoRequest, NoReply)
       ELSE \A id \in ApiClients :
              /\ id \in DOMAIN rateLimitMap'
              /\ rateLimitMap'[id].count = C29_OneMore(id)
  /\ (spc # "idle" /\ (spc' # spc \/ sresp' # sresp)) => rateLimitMap' = rateLimitMap

C29_RateLimitGatesEverything == [][C29_GateStep]_vars

\* A request that used the last unit of the window was answered 404.
C29_Witness ==
  /\ endpoint = "single" /\ spc = "idle"
  /\ sresp.response.status = 404
  /\ "ip1" \in DOMAIN rateLimitMap
  /\ rateLimitMap["ip1"].count = ApiMaxRequests

\* A source found the word w of the request.
C30_Found(w) ==
  \E j \in 1..Len(bresp.scrapedResults) :
    /\ bresp.scrapedResults[j].found
    /\ LowerWord(bresp.scrapedResults[j].word) = LowerWord(w)

\* C30: in a successful batch response processed <= total, data holds at
\* most one record per word, only records of words that were requested
\* and found by a source, and no word that is also in failed.
C30_DataConsistent ==
  bresp.response.success =>
    LET data == bresp.response.data IN
    /\ bresp.response.processed <= bresp.response.total
    /\ \A i \in 1..Len(data), j \in 1..Len(data) :
         LowerWord(data[i].word) = LowerWord(data[j].word) => i = j
    /\ \A i \in 1..Len(data) :
         /\ \E k \in 1..Len(bresp.words) :
              LowerWord(bresp.words[k]) = LowerWord(data[i].word)
         /\ C30_Found(data[i].word)
         /\ ~Includes(FailedOf(bresp.response), data[i].word)

====
